---- MODULE Spec2Model ----
\* A model of tyria-rs, a typed client of the Guild Wars 2 REST API: the
\* parameter encoders and the response dispatcher of util.rs, the client session
\* of client.rs and the endpoint wrappers of api_v2/*.rs.
\*
\* Strings that the program builds, compares or sends (paths, URLs, header
\* values, error texts) are sequences of one-character strings, so that
\* concatenation, formatting and splitting are what the code does.  Messages
\* of panics are never taken apart and are plain strings.
EXTENDS Integers, Sequences, FiniteSets, TLC

\* ---------------------------------------------------------------- bounds
\* Longest list of IDs given to a batch wrapper.
MaxIds == 2
\* Most GETs a session sends.
MaxGets == 2
\* Number of callers that share a session concurrently.
NThreads == 2

\* ---------------------------------------------------------------- inputs
\* Numeric IDs given to the single-item wrappers (i32).
NumArgs == {-7, 0, 42}
\* Numeric IDs the lists of the batch wrappers are made of.
ListNums == {1, 23}
\* String IDs given to the single-item wrappers and making up the lists.
StrArgs == {<<"H", "u">>, <<"a", ",", "b">>, <<"x", "=", "&", " ", "?", "#">>}
\* Character names.
NameArgs == {<<"B", "o", "b">>, <<"a", "/", "b", " ", "?", "#", "&">>}
\* URLs a caller hands to make_request and make_authenticated_request itself:
\* the path of an endpoint, and a string that is no path.
DirectUrls == {<<"/", "v", "2", "/", "m", "a", "s", "t", "e", "r", "i", "e", "s">>,
               <<"@", "e", "v", "i", "l", ".", "e", "x", "a", "m", "p", "l", "e", "/", "x">>}
\* Locales and tokens a session is constructed with.
Langs == {<<"e", "n">>, <<"e", "s">>}
Tokens == {<<"a", "b", "c">>}
\* Status codes the remote API answers with.
Statuses == {200, 206, 400, 403, 404, 500}
\* Status sets a caller of parse_response declares.
StatusSets == SUBSET {200, 404}
\* The callers that share a session.
Threads == 1..NThreads
\* Payloads a body can hold for the wrapper's success type, and error texts.
Data == {"v1", "v2"}
Texts == {<<"n", "o", "t", " ", "f", "o", "u", "n", "d">>, <<"d", "e", "n", "i", "e", "d">>}

\* Option<T>: None is the empty sequence, Some(x) the sequence of x alone.
None == <<>>
Some(x) == <<x>>
Option(S) == {None} \cup {Some(x) : x \in S}

\* Sequences over S of length at most n.
SeqsUpTo(S, n) == UNION {[1..k -> S] : k \in 0..n}

\* ---------------------------------------------------------------- util.rs
\* i32::to_string: decimal digits, most significant first, "-" before a
\* negative value.
DigitChars == <<"0", "1", "2", "3", "4", "5", "6", "7", "8", "9">>
RECURSIVE digits(_)
digits(n) == IF n < 10 THEN <<DigitChars[n + 1]>>
             ELSE digits(n \div 10) \o <<DigitChars[(n % 10) + 1]>>
to_string(value) == IF value < 0 THEN <<"-">> \o digits(-value) ELSE digits(value)

\* number_to_param that ends the value with a comma, as the list encoders do.
number_to_param_with_comma(param, value) ==
    ((param \o <<"=">>) \o to_string(value)) \o <<",">>

\* number_to_param: the label, "=", the value.
number_to_param(param, value) == (param \o <<"=">>) \o to_string(value)

\* numbers_to_param that puts the commas between the values only.
RECURSIVE numbers_join(_)
numbers_join(values) ==
    IF values = <<>> THEN <<>>
    ELSE IF Len(values) = 1 THEN to_string(Head(values))
    ELSE (to_string(Head(values)) \o <<",">>) \o numbers_join(Tail(values))
numbers_to_param_joined(param, values) == (param \o <<"=">>) \o numbers_join(values)

\* numbers_to_param: the label, "=", then for every value in order the value
\* and a comma.
RECURSIVE numbers_loop(_, _)
numbers_loop(result, values) ==
    IF values = <<>> THEN result
    ELSE numbers_loop((result \o to_string(Head(values))) \o <<",">>, Tail(values))
\* numbers_to_param that gives no fragment at all for an empty list.
numbers_to_param_omits_empty(param, values) ==
    IF values = <<>> THEN <<>> ELSE numbers_loop(param \o <<"=">>, values)
\* numbers_to_param as the code has it.
numbers_to_param(param, values) == numbers_loop(param \o <<"=">>, values)

\* string_to_param that percent-encodes the reserved characters of the value.
RECURSIVE percent_encode(_)
percent_encode(s) ==
    IF s = <<>> THEN <<>>
    ELSE (CASE Head(s) = "," -> <<"%", "2", "C">>
            [] Head(s) = " " -> <<"%", "2", "0">>
            [] Head(s) = "&" -> <<"%", "2", "6">>
            [] Head(s) = "=" -> <<"%", "3", "D">>
            [] Head(s) = "?" -> <<"%", "3", "F">>
            [] Head(s) = "#" -> <<"%", "2", "3">>
            [] OTHER -> <<Head(s)>>) \o percent_encode(Tail(s))
string_to_param_escaped(param, value) == (param \o <<"=">>) \o percent_encode(value)

\* string_to_param: the label, "=", the value as it is.
string_to_param(param, value) == (param \o <<"=">>) \o value

\* strings_to_param: the label, "=", then for every value in order the value
\* and a comma.
RECURSIVE strings_loop(_, _)
strings_loop(result, values) ==
    IF values = <<>> THEN result
    ELSE strings_loop((result \o Head(values)) \o <<",">>, Tail(values))
strings_to_param(param, values) == strings_loop(param \o <<"=">>, values)

\* ---------------------------------------------------------------- types.rs
\* APIError::new: an error holding the given text.
APIError_new(text) == [text |-> text]

\* ------------------------------------------------- responses and outcomes
\* What the transport hands back: a network-level failure (reqwest::Error) or
\* a response with a status and a body.  A body is described by what serde
\* makes of it: data is the value it deserializes to as the wrapper's success
\* type (None when it does not), text the text member it deserializes to as
\* an APIError (None when it does not).
Bodies == [data : Option(Data), text : Option(Texts)]
Responses == [kind : {"response"}, status : Statuses, body : Bodies]
TransportError == [kind |-> "error"]
TransportResults == Responses \cup {TransportError}

\* response.json::<T>() and response.json::<APIError>(): a Result, Ok with the
\* deserialized value or Err.
json_T(response) ==
    IF response.body.data # None THEN [ok |-> TRUE, val |-> response.body.data[1]]
    ELSE [ok |-> FALSE]
json_APIError(response) ==
    IF response.body.text # None
    THEN [ok |-> TRUE, val |-> [text |-> response.body.text[1]]]
    ELSE [ok |-> FALSE]

\* What a call ends in: the Result<T, APIError> it returns, or a panic that
\* unwinds through the caller.
Ok(v) == [kind |-> "Ok", value |-> v]
Err(e) == [kind |-> "Err", error |-> e]
Panic(msg) == [kind |-> "panic", msg |-> msg]
NoOutcome == [kind |-> "none"]
UnwrapMsg == "called Result::unwrap() on an Err value"

\* Display of a StatusCode, as format!("{}", response.status()) prints it: the
\* number, a space, the canonical reason phrase.
canonical_reason(status) ==
    CASE status = 200 -> <<"O", "K">>
      [] status = 206 -> <<"P", "a", "r", "t", "i", "a", "l", " ", "C", "o", "n", "t", "e", "n", "t">>
      [] status = 400 -> <<"B", "a", "d", " ", "R", "e", "q", "u", "e", "s", "t">>
      [] status = 403 -> <<"F", "o", "r", "b", "i", "d", "d", "e", "n">>
      [] status = 404 -> <<"N", "o", "t", " ", "F", "o", "u", "n", "d">>
      [] status = 500 -> <<"I", "n", "t", "e", "r", "n", "a", "l", " ", "S", "e", "r", "v", "e", "r", " ", "E", "r", "r", "o", "r">>
      [] OTHER -> <<"<", "u", "n", "k", "n", "o", "w", "n", " ", "s", "t", "a", "t", "u", "s", " ", "c", "o", "d", "e", ">">>
StatusCode_fmt(status) == (digits(status) \o <<" ">>) \o canonical_reason(status)

\* parse_response with the two sets taken in the wrong order.
parse_response_swapped(response, valid, invalid) ==
    IF response.status \in invalid
    THEN LET r == json_T(response) IN IF r.ok THEN Ok(r.val) ELSE Panic(UnwrapMsg)
    ELSE IF response.status \in valid
    THEN LET r == json_APIError(response) IN IF r.ok THEN Err(r.val) ELSE Panic(UnwrapMsg)
    ELSE Err(APIError_new(
             <<"u", "n", "k", "n", "o", "w", "n", " ", "s", "t", "a", "t", "u", "s", " ",
               "c", "o", "d", "e", ":", " ">> \o StatusCode_fmt(response.status)))

\* parse_response without the branch of the declared failure statuses.
parse_response_no_invalid(response, valid, invalid) ==
    IF response.status \in valid
    THEN LET r == json_T(response) IN IF r.ok THEN Ok(r.val) ELSE Panic(UnwrapMsg)
    ELSE Err(APIError_new(
             <<"u", "n", "k", "n", "o", "w", "n", " ", "s", "t", "a", "t", "u", "s", " ",
               "c", "o", "d", "e", ":", " ">> \o StatusCode_fmt(response.status)))

\* parse_response with the status left out of the unknown-status message.
parse_response_no_code(response, valid, invalid) ==
    IF response.status \in valid
    THEN LET r == json_T(response) IN IF r.ok THEN Ok(r.val) ELSE Panic(UnwrapMsg)
    ELSE IF response.status \in invalid
    THEN LET r == json_APIError(response) IN IF r.ok THEN Err(r.val) ELSE Panic(UnwrapMsg)
    ELSE Err(APIError_new(
             <<"u", "n", "k", "n", "o", "w", "n", " ", "s", "t", "a", "t", "u", "s", " ",
               "c", "o", "d", "e", ":", " ">>))

\* parse_response taking 200 for the only success status, whatever valid holds.
parse_response_only_200(response, valid, invalid) ==
    IF response.status = 200
    THEN LET r == json_T(response) IN IF r.ok THEN Ok(r.val) ELSE Panic(UnwrapMsg)
    ELSE IF response.status \in invalid
    THEN LET r == json_APIError(response) IN IF r.ok THEN Err(r.val) ELSE Panic(UnwrapMsg)
    ELSE Err(APIError_new(
             <<"u", "n", "k", "n", "o", "w", "n", " ", "s", "t", "a", "t", "u", "s", " ",
               "c", "o", "d", "e", ":", " ">> \o StatusCode_fmt(response.status)))

\* parse_response with the declared failure statuses looked at first.
parse_response_invalid_first(response, valid, invalid) ==
    IF response.status \in invalid
    THEN LET r == json_APIError(response) IN IF r.ok THEN Err(r.val) ELSE Panic(UnwrapMsg)
    ELSE IF response.status \in valid
    THEN LET r == json_T(response) IN IF r.ok THEN Ok(r.val) ELSE Panic(UnwrapMsg)
    ELSE Err(APIError_new(
             <<"u", "n", "k", "n", "o", "w", "n", " ", "s", "t", "a", "t", "u", "s", " ",
               "c", "o", "d", "e", ":", " ">> \o StatusCode_fmt(response.status)))

\* parse_response that looks for an error record in the body of a response
\* with an undeclared status before it falls back to the status.
parse_response_parses_unknown(response, valid, invalid) ==
    IF response.status \in valid
    THEN LET r == json_T(response) IN IF r.ok THEN Ok(r.val) ELSE Panic(UnwrapMsg)
    ELSE IF response.status \in invalid
    THEN LET r == json_APIError(response) IN IF r.ok THEN Err(r.val) ELSE Panic(UnwrapMsg)
    ELSE LET r == json_APIError(response) IN
           IF r.ok THEN Err(r.val)
           ELSE Err(APIError_new(
                    <<"u", "n", "k", "n", "o", "w", "n", " ", "s", "t", "a", "t", "u", "s", " ",
                      "c", "o", "d", "e", ":", " ">> \o StatusCode_fmt(response.status)))

\* parse_response that takes every 2xx status for a success, declared or not.
parse_response_by_class(response, valid, invalid) ==
    IF response.status \in valid \/ (response.status >= 200 /\ response.status < 300)
    THEN LET r == json_T(response) IN IF r.ok THEN Ok(r.val) ELSE Panic(UnwrapMsg)
    ELSE IF response.status \in invalid
    THEN LET r == json_APIError(response) IN IF r.ok THEN Err(r.val) ELSE Panic(UnwrapMsg)
    ELSE Err(APIError_new(
             <<"u", "n", "k", "n", "o", "w", "n", " ", "s", "t", "a", "t", "u", "s", " ",
               "c", "o", "d", "e", ":", " ">> \o StatusCode_fmt(response.status)))

\* parse_response: the body as the success type when the status is in valid,
\* else the body as an APIError when the status is in invalid, else an error
\* "unknown status code: <status>".  Both deserializations are unwrapped.
parse_response(response, valid, invalid) ==
    IF response.status \in valid
    THEN LET r == json_T(response) IN IF r.ok THEN Ok(r.val) ELSE Panic(UnwrapMsg)
    ELSE IF response.status \in invalid
    THEN LET r == json_APIError(response) IN IF r.ok THEN Err(r.val) ELSE Panic(UnwrapMsg)
    ELSE Err(APIError_new(
             \* "unknown status code: "
             <<"u", "n", "k", "n", "o", "w", "n", " ", "s", "t", "a", "t", "u", "s", " ",
               "c", "o", "d", "e", ":", " ">> \o StatusCode_fmt(response.status)))

\* ---------------------------------------------------------------- client.rs
\* APIClient::new: the session holds the locale and the optional token.
APIClient_new(l, t) == [lang |-> l, token |-> t]

\* get_request_url! with the scheme http.
get_request_url_http(endpoint) ==
    \* "http://api.guildwars2.com"
    <<"h", "t", "t", "p", ":", "/", "/", "a", "p", "i", ".", "g", "u", "i", "l", "d",
      "w", "a", "r", "s", "2", ".", "c", "o", "m">> \o endpoint

\* get_request_url!: the fixed origin followed by the endpoint.
get_request_url(endpoint) ==
    \* "https://api.guildwars2.com"
    <<"h", "t", "t", "p", "s", ":", "/", "/", "a", "p", "i", ".", "g", "u", "i", "l", "d",
      "w", "a", "r", "s", "2", ".", "c", "o", "m">> \o endpoint

\* make_request that also sends the token when the session has one.
make_request_leaks_token(self, url) ==
    [sent |-> TRUE,
     request |-> [method |-> "GET", url |-> get_request_url(url),
                  accept_language |-> Some(self.lang),
                  authorization |-> IF self.token = None THEN None
                                    ELSE Some(<<"B", "e", "a", "r", "e", "r", " ">> \o self.token[1])]]

\* make_request that leaves the language tag at its default, with no language.
make_request_default_lang(self, url) ==
    [sent |-> TRUE,
     request |-> [method |-> "GET", url |-> get_request_url(url),
                  accept_language |-> Some(<<>>), authorization |-> None]]

\* make_request: a GET of the full URL with the Accept-Language header.
make_request(self, url) ==
    [sent |-> TRUE,
     request |-> [method |-> "GET", url |-> get_request_url(url),
                  accept_language |-> Some(self.lang), authorization |-> None]]

\* make_authenticated_request that sends the bare token, without the scheme.
make_authenticated_request_no_scheme(self, url) ==
    IF self.token = None
    THEN [sent |-> FALSE, panic |-> "token is not configured"]
    ELSE [sent |-> TRUE,
          request |-> [method |-> "GET", url |-> get_request_url(url),
                       accept_language |-> Some(self.lang),
                       authorization |-> Some(self.token[1])]]

\* make_authenticated_request that sends the request without the header when
\* the session has no token.
make_authenticated_request_anonymous(self, url) ==
    IF self.token = None
    THEN [sent |-> TRUE,
          request |-> [method |-> "GET", url |-> get_request_url(url),
                       accept_language |-> Some(self.lang), authorization |-> None]]
    ELSE [sent |-> TRUE,
          request |-> [method |-> "GET", url |-> get_request_url(url),
                       accept_language |-> Some(self.lang),
                       authorization |-> Some(<<"B", "e", "a", "r", "e", "r", " ">>
                                               \o self.token[1])]]

\* make_authenticated_request: as make_request, with "Bearer <token>" as the
\* Authorization header; panics before sending when the session has no token.
make_authenticated_request(self, url) ==
    IF self.token = None
    THEN [sent |-> FALSE, panic |-> "token is not configured"]
    ELSE [sent |-> TRUE,
          request |-> [method |-> "GET", url |-> get_request_url(url),
                       accept_language |-> Some(self.lang),
                       authorization |-> Some(<<"B", "e", "a", "r", "e", "r", " ">> \o self.token[1])]]

\* ---------------------------------------------------------------- api_v2
\* get_endpoint! of api_v2/core.rs: the path of the named endpoint, id put at the
\* template's substitution point (ignored by the templates that have none).
get_endpoint_core(name, id) ==
    \* "/v2/masteries"
    CASE name = "all_masteries" -> <<"/", "v", "2", "/", "m", "a", "s", "t", "e", "r", "i", "e", "s">>
    \* "/v2/masteries?{}"
      [] name = "masteries_id" -> <<"/", "v", "2", "/", "m", "a", "s", "t", "e", "r", "i", "e", "s", "?">> \o id
    \* "/v2/outfits"
      [] name = "all_outfits" -> <<"/", "v", "2", "/", "o", "u", "t", "f", "i", "t", "s">>
    \* "/v2/outfits?{}"
      [] name = "outfits_id" -> <<"/", "v", "2", "/", "o", "u", "t", "f", "i", "t", "s", "?">> \o id
    \* "/v2/pets"
      [] name = "all_pets" -> <<"/", "v", "2", "/", "p", "e", "t", "s">>
    \* "/v2/pets?{}"
      [] name = "pets_id" -> <<"/", "v", "2", "/", "p", "e", "t", "s", "?">> \o id
    \* "/v2/professions"
      [] name = "all_professions" -> <<"/", "v", "2", "/", "p", "r", "o", "f", "e", "s", "s", "i", "o", "n", "s">>
    \* "/v2/professions?{}"
      [] name = "professions_id" -> <<"/", "v", "2", "/", "p", "r", "o", "f", "e", "s", "s", "i", "o", "n", "s", "?">> \o id
    \* "/v2/races"
      [] name = "all_races" -> <<"/", "v", "2", "/", "r", "a", "c", "e", "s">>
    \* "/v2/races?{}"
      [] name = "races_id" -> <<"/", "v", "2", "/", "r", "a", "c", "e", "s", "?">> \o id
    \* "/v2/specializations"
      [] name = "all_specs" -> <<"/", "v", "2", "/", "s", "p", "e", "c", "i", "a", "l", "i", "z", "a", "t", "i", "o", "n", "s">>
    \* "/v2/specializations?{}"
      [] name = "specs_id" -> <<"/", "v", "2", "/", "s", "p", "e", "c", "i", "a", "l", "i", "z", "a", "t", "i", "o", "n", "s", "?">> \o id
    \* "/v2/skills"
      [] name = "all_skills" -> <<"/", "v", "2", "/", "s", "k", "i", "l", "l", "s">>
    \* "/v2/skills?{}"
      [] name = "skills_id" -> <<"/", "v", "2", "/", "s", "k", "i", "l", "l", "s", "?">> \o id
    \* "/v2/traits"
      [] name = "all_traits" -> <<"/", "v", "2", "/", "t", "r", "a", "i", "t", "s">>
    \* "/v2/traits?{}"
      [] name = "traits_id" -> <<"/", "v", "2", "/", "t", "r", "a", "i", "t", "s", "?">> \o id
    \* "/v2/legends"
      [] name = "all_legends" -> <<"/", "v", "2", "/", "l", "e", "g", "e", "n", "d", "s">>
    \* "/v2/legends?{}"
      [] name = "legends_id" -> <<"/", "v", "2", "/", "l", "e", "g", "e", "n", "d", "s", "?">> \o id

\* The endpoint wrappers of api_v2/core.rs: the endpoint each one requests, how its
\* argument is encoded, whether it authenticates, the status codes it declares and
\* the message of its .expect() on the transport result.
core_wrappers == {
    [name |-> "get_mastery_ids", file |-> "core", endpoint |-> "all_masteries", arg |-> "none", param |-> <<>>,
     auth |-> FALSE, valid |-> {200}, invalid |-> {404}, inline |-> FALSE,
     expect |-> "failed to get mastery IDs"],
    [name |-> "get_mastery", file |-> "core", endpoint |-> "masteries_id", arg |-> "number", param |-> <<"i", "d">>,
     auth |-> FALSE, valid |-> {200}, invalid |-> {404}, inline |-> FALSE,
     expect |-> "failed to get mastery"],
    [name |-> "get_masteries", file |-> "core", endpoint |-> "masteries_id", arg |-> "numbers", param |-> <<"i", "d", "s">>,
     auth |-> FALSE, valid |-> {200, 206}, invalid |-> {404}, inline |-> FALSE,
     expect |-> "failed to get masteries"],
    [name |-> "get_outfit_ids", file |-> "core", endpoint |-> "all_outfits", arg |-> "none", param |-> <<>>,
     auth |-> FALSE, valid |-> {200}, invalid |-> {404}, inline |-> FALSE,
     expect |-> "failed to get outfit IDs"],
    [name |-> "get_outfit", file |-> "core", endpoint |-> "outfits_id", arg |-> "number", param |-> <<"i", "d">>,
     auth |-> FALSE, valid |-> {200}, invalid |-> {404}, inline |-> FALSE,
     expect |-> "failed to get outfit"],
    [name |-> "get_outfits", file |-> "core", endpoint |-> "outfits_id", arg |-> "numbers", param |-> <<"i", "d", "s">>,
     auth |-> FALSE, valid |-> {200, 206}, invalid |-> {404}, inline |-> FALSE,
     expect |-> "failed to get outfits"],
    [name |-> "get_pet_ids", file |-> "core", endpoint |-> "all_pets", arg |-> "none", param |-> <<>>,
     auth |-> FALSE, valid |-> {200}, invalid |-> {404}, inline |-> FALSE,
     expect |-> "failed to get pet IDs"],
    [name |-> "get_pet", file |-> "core", endpoint |-> "pets_id", arg |-> "number", param |-> <<"i", "d">>,
     auth |-> FALSE, valid |-> {200}, invalid |-> {404}, inline |-> FALSE,
     expect |-> "failed to get pet"],
    [name |-> "get_pets", file |-> "core", endpoint |-> "pets_id", arg |-> "numbers", param |-> <<"i", "d", "s">>,
     auth |-> FALSE, valid |-> {200, 206}, invalid |-> {404}, inline |-> FALSE,
     expect |-> "failed to get pets"],
    [name |-> "get_profession_ids", file |-> "core", endpoint |-> "all_professions", arg |-> "none", param |-> <<>>,
     auth |-> FALSE, valid |-> {200}, invalid |-> {404}, inline |-> FALSE,
     expect |-> "failed to get profession IDs"],
    [name |-> "get_profession", file |-> "core", endpoint |-> "professions_id", arg |-> "string", param |-> <<"i", "d">>,
     auth |-> FALSE, valid |-> {200}, invalid |-> {404}, inline |-> FALSE,
     expect |-> "failed to get profession"],
    [name |-> "get_professions", file |-> "core", endpoint |-> "professions_id", arg |-> "strings", param |-> <<"i", "d", "s">>,
     auth |-> FALSE, valid |-> {200, 206}, invalid |-> {404}, inline |-> FALSE,
     expect |-> "failed to get professions"],
    [name |-> "get_race_ids", file |-> "core", endpoint |-> "all_races", arg |-> "none", param |-> <<>>,
     auth |-> FALSE, valid |-> {200}, invalid |-> {404}, inline |-> FALSE,
     expect |-> "failed to get race IDs"],
    [name |-> "get_race", file |-> "core", endpoint |-> "races_id", arg |-> "string", param |-> <<"i", "d">>,
     auth |-> FALSE, valid |-> {200}, invalid |-> {404}, inline |-> FALSE,
     expect |-> "failed to get race"],
    [name |-> "get_races", file |-> "core", endpoint |-> "races_id", arg |-> "strings", param |-> <<"i", "d", "s">>,
     auth |-> FALSE, valid |-> {200, 206}, invalid |-> {404}, inline |-> FALSE,
     expect |-> "failed to get races"],
    [name |-> "get_specialization_ids", file |-> "core", endpoint |-> "all_specs", arg |-> "none", param |-> <<>>,
     auth |-> FALSE, valid |-> {200}, invalid |-> {404}, inline |-> FALSE,
     expect |-> "failed to get specialization IDs"],
    [name |-> "get_specialization", file |-> "core", endpoint |-> "specs_id", arg |-> "number", param |-> <<"i", "d">>,
     auth |-> FALSE, valid |-> {200}, invalid |-> {404}, inline |-> FALSE,
     expect |-> "failed to get specialization"],
    [name |-> "get_specializations", file |-> "core", endpoint |-> "specs_id", arg |-> "numbers", param |-> <<"i", "d", "s">>,
     auth |-> FALSE, valid |-> {200, 206}, invalid |-> {404}, inline |-> FALSE,
     expect |-> "failed to get specializations"],
    [name |-> "get_skill_ids", file |-> "core", endpoint |-> "all_skills", arg |-> "none", param |-> <<>>,
     auth |-> FALSE, valid |-> {200}, invalid |-> {404}, inline |-> FALSE,
     expect |-> "failed to get skill IDs"],
    [name |-> "get_skill", file |-> "core", endpoint |-> "skills_id", arg |-> "number", param |-> <<"i", "d">>,
     auth |-> FALSE, valid |-> {200}, invalid |-> {404}, inline |-> FALSE,
     expect |-> "failed to get skill"],
    [name |-> "get_skills", file |-> "core", endpoint |-> "skills_id", arg |-> "numbers", param |-> <<"i", "d", "s">>,
     auth |-> FALSE, valid |-> {200, 206}, invalid |-> {404}, inline |-> FALSE,
     expect |-> "failed to get skill"],
    [name |-> "get_trait_ids", file |-> "core", endpoint |-> "all_traits", arg |-> "none", param |-> <<>>,
     auth |-> FALSE, valid |-> {200}, invalid |-> {404}, inline |-> FALSE,
     expect |-> "failed to get trait IDs"],
    [name |-> "get_trait", file |-> "core", endpoint |-> "traits_id", arg |-> "number", param |-> <<"i", "d">>,
     auth |-> FALSE, valid |-> {200}, invalid |-> {404}, inline |-> FALSE,
     expect |-> "failed to get trait"],
    [name |-> "get_traits", file |-> "core", endpoint |-> "traits_id", arg |-> "numbers", param |-> <<"i", "d", "s">>,
     auth |-> FALSE, valid |-> {200, 206}, invalid |-> {404}, inline |-> FALSE,
     expect |-> "failed to gettraits"],
    [name |-> "get_legend_ids", file |-> "core", endpoint |-> "all_legends", arg |-> "none", param |-> <<>>,
     auth |-> FALSE, valid |-> {200}, invalid |-> {404}, inline |-> FALSE,
     expect |-> "failed to get legend IDs"],
    [name |-> "get_legend", file |-> "core", endpoint |-> "legends_id", arg |-> "string", param |-> <<"i", "d">>,
     auth |-> FALSE, valid |-> {200}, invalid |-> {404}, inline |-> FALSE,
     expect |-> "failed to get legend"],
    [name |-> "get_legends", file |-> "core", endpoint |-> "legends_id", arg |-> "strings", param |-> <<"i", "d", "s">>,
     auth |-> FALSE, valid |-> {200, 206}, invalid |-> {404}, inline |-> FALSE,
     expect |-> "failed to get legends"]
}

\* get_endpoint! of api_v2/achievements.rs: the path of the named endpoint, id put at the
\* template's substitution point (ignored by the templates that have none).
get_endpoint_achievements(name, id) ==
    \* "/v2/achievements"
    CASE name = "all_achievements" -> <<"/", "v", "2", "/", "a", "c", "h", "i", "e", "v", "e", "m", "e", "n", "t", "s">>
    \* "/v2/achievements?{}"
      [] name = "achievements_id" -> <<"/", "v", "2", "/", "a", "c", "h", "i", "e", "v", "e", "m", "e", "n", "t", "s", "?">> \o id
    \* "/v2/achievements/daily"
      [] name = "daily_achievements" -> <<"/", "v", "2", "/", "a", "c", "h", "i", "e", "v", "e", "m", "e", "n", "t", "s", "/", "d", "a", "i", "l", "y">>
    \* "/v2/achievements/daily/tomorrow"
      [] name = "daily_achievements_tomorrow" -> <<"/", "v", "2", "/", "a", "c", "h", "i", "e", "v", "e", "m", "e", "n", "t", "s", "/", "d", "a", "i", "l", "y", "/", "t", "o", "m", "o", "r", "r", "o", "w">>
    \* "/v2/achievements/groups"
      [] name = "all_achievement_groups" -> <<"/", "v", "2", "/", "a", "c", "h", "i", "e", "v", "e", "m", "e", "n", "t", "s", "/", "g", "r", "o", "u", "p", "s">>
    \* "/v2/achievements/groups?{}"
      [] name = "achievement_groups_id" -> <<"/", "v", "2", "/", "a", "c", "h", "i", "e", "v", "e", "m", "e", "n", "t", "s", "/", "g", "r", "o", "u", "p", "s", "?">> \o id
    \* "/v2/achievements/categories"
      [] name = "all_achievement_categories" -> <<"/", "v", "2", "/", "a", "c", "h", "i", "e", "v", "e", "m", "e", "n", "t", "s", "/", "c", "a", "t", "e", "g", "o", "r", "i", "e", "s">>
    \* "/v2/achievements/categories?{}"
      [] name = "achievement_categories_id" -> <<"/", "v", "2", "/", "a", "c", "h", "i", "e", "v", "e", "m", "e", "n", "t", "s", "/", "c", "a", "t", "e", "g", "o", "r", "i", "e", "s", "?">> \o id

\* The endpoint wrappers of api_v2/achievements.rs: the endpoint each one requests, how its
\* argument is encoded, whether it authenticates, the status codes it declares and
\* the message of its .expect() on the transport result.
achievements_wrappers == {
    [name |-> "get_achievement_ids", file |-> "achievements", endpoint |-> "all_achievements", arg |-> "none", param |-> <<>>,
     auth |-> FALSE, valid |-> {200}, invalid |-> {404}, inline |-> TRUE,
     expect |-> "Failed to get achievement IDs"],
    [name |-> "get_achievement", file |-> "achievements", endpoint |-> "achievements_id", arg |-> "number", param |-> <<"i", "d">>,
     auth |-> FALSE, valid |-> {200}, invalid |-> {404}, inline |-> TRUE,
     expect |-> "Failed to get achievement"],
    [name |-> "get_achievements", file |-> "achievements", endpoint |-> "achievements_id", arg |-> "numbers", param |-> <<"i", "d", "s">>,
     auth |-> FALSE, valid |-> {200}, invalid |-> {404}, inline |-> TRUE,
     expect |-> "Failed to get achievements"],
    [name |-> "get_daily_achievements", file |-> "achievements", endpoint |-> "daily_achievements", arg |-> "none", param |-> <<>>,
     auth |-> FALSE, valid |-> {200}, invalid |-> {404}, inline |-> TRUE,
     expect |-> "Failed to get achievements"],
    [name |-> "get_daily_achievements_tomorrow", file |-> "achievements", endpoint |-> "daily_achievements_tomorrow", arg |-> "none", param |-> <<>>,
     auth |-> FALSE, valid |-> {200}, invalid |-> {404}, inline |-> TRUE,
     expect |-> "Failed to get achievements"],
    [name |-> "get_achievement_group_ids", file |-> "achievements", endpoint |-> "all_achievement_groups", arg |-> "none", param |-> <<>>,
     auth |-> FALSE, valid |-> {200}, invalid |-> {404}, inline |-> TRUE,
     expect |-> "Failed to get group IDs"],
    [name |-> "get_achievement_group", file |-> "achievements", endpoint |-> "achievement_groups_id", arg |-> "string", param |-> <<"i", "d">>,
     auth |-> FALSE, valid |-> {200}, invalid |-> {404}, inline |-> TRUE,
     expect |-> "Failed to get group"],
    [name |-> "get_achievement_groups", file |-> "achievements", endpoint |-> "achievement_groups_id", arg |-> "strings", param |-> <<"i", "d", "s">>,
     auth |-> FALSE, valid |-> {200}, invalid |-> {404}, inline |-> TRUE,
     expect |-> "Failed to get groups"],
    [name |-> "get_achievement_category_ids", file |-> "achievements", endpoint |-> "all_achievement_categories", arg |-> "none", param |-> <<>>,
     auth |-> FALSE, valid |-> {200}, invalid |-> {404}, inline |-> TRUE,
     expect |-> "Failed to get category IDs"],
    [name |-> "get_achievement_category", file |-> "achievements", endpoint |-> "achievement_categories_id", arg |-> "number", param |-> <<"i", "d">>,
     auth |-> FALSE, valid |-> {200}, invalid |-> {404}, inline |-> TRUE,
     expect |-> "Failed to get category"],
    [name |-> "get_achievement_categories", file |-> "achievements", endpoint |-> "achievement_categories_id", arg |-> "numbers", param |-> <<"i", "d", "s">>,
     auth |-> FALSE, valid |-> {200}, invalid |-> {404}, inline |-> TRUE,
     expect |-> "Failed to get categories"]
}

\* get_endpoint! of api_v2/commerce.rs: the path of the named endpoint, id put at the
\* template's substitution point (ignored by the templates that have none).
get_endpoint_commerce(name, id) ==
    \* "/v2/commerce/exchange"
    CASE name = "exchange" -> <<"/", "v", "2", "/", "c", "o", "m", "m", "e", "r", "c", "e", "/", "e", "x", "c", "h", "a", "n", "g", "e">>
    \* "/v2/commerce/exchange/coins?{}"
      [] name = "exchange_coins" -> <<"/", "v", "2", "/", "c", "o", "m", "m", "e", "r", "c", "e", "/", "e", "x", "c", "h", "a", "n", "g", "e", "/", "c", "o", "i", "n", "s", "?">> \o id
    \* "/v2/commerce/exchange/gems?{}"
      [] name = "exchange_gems" -> <<"/", "v", "2", "/", "c", "o", "m", "m", "e", "r", "c", "e", "/", "e", "x", "c", "h", "a", "n", "g", "e", "/", "g", "e", "m", "s", "?">> \o id
    \* "/v2/commerce/listings"
      [] name = "all_listings" -> <<"/", "v", "2", "/", "c", "o", "m", "m", "e", "r", "c", "e", "/", "l", "i", "s", "t", "i", "n", "g", "s">>
    \* "/v2/commerce/listings?{}"
      [] name = "listings_id" -> <<"/", "v", "2", "/", "c", "o", "m", "m", "e", "r", "c", "e", "/", "l", "i", "s", "t", "i", "n", "g", "s", "?">> \o id
    \* "/v2/commerce/prices"
      [] name = "all_prices" -> <<"/", "v", "2", "/", "c", "o", "m", "m", "e", "r", "c", "e", "/", "p", "r", "i", "c", "e", "s">>
    \* "/v2/commerce/prices?{}"
      [] name = "prices_id" -> <<"/", "v", "2", "/", "c", "o", "m", "m", "e", "r", "c", "e", "/", "p", "r", "i", "c", "e", "s", "?">> \o id
    \* "/v2/commerce/transactions/current/buy"
      [] name = "current_buy" -> <<"/", "v", "2", "/", "c", "o", "m", "m", "e", "r", "c", "e", "/", "t", "r", "a", "n", "s", "a", "c", "t", "i", "o", "n", "s", "/", "c", "u", "r", "r", "e", "n", "t", "/", "b", "u", "y">>
    \* "/v2/commerce/transactions/current/sell"
      [] name = "current_sell" -> <<"/", "v", "2", "/", "c", "o", "m", "m", "e", "r", "c", "e", "/", "t", "r", "a", "n", "s", "a", "c", "t", "i", "o", "n", "s", "/", "c", "u", "r", "r", "e", "n", "t", "/", "s", "e", "l", "l">>
    \* "/v2/commerce/transactions/history/buy"
      [] name = "history_buy" -> <<"/", "v", "2", "/", "c", "o", "m", "m", "e", "r", "c", "e", "/", "t", "r", "a", "n", "s", "a", "c", "t", "i", "o", "n", "s", "/", "h", "i", "s", "t", "o", "r", "y", "/", "b", "u", "y">>
    \* "/v2/commerce/transactions/history/sell"
      [] name = "history_sell" -> <<"/", "v", "2", "/", "c", "o", "m", "m", "e", "r", "c", "e", "/", "t", "r", "a", "n", "s", "a", "c", "t", "i", "o", "n", "s", "/", "h", "i", "s", "t", "o", "r", "y", "/", "s", "e", "l", "l">>

\* The endpoint wrappers of api_v2/commerce.rs: the endpoint each one requests, how its
\* argument is encoded, whether it authenticates, the status codes it declares and
\* the message of its .expect() on the transport result.
commerce_wrappers == {
    [name |-> "get_exchange", file |-> "commerce", endpoint |-> "exchange", arg |-> "none", param |-> <<>>,
     auth |-> FALSE, valid |-> {200}, invalid |-> {404}, inline |-> FALSE,
     expect |-> "failed to get gem exchange resources"],
    [name |-> "get_coin_exchange", file |-> "commerce", endpoint |-> "exchange_coins", arg |-> "number", param |-> <<"q", "u", "a", "n", "t", "i", "t", "y">>,
     auth |-> FALSE, valid |-> {200}, invalid |-> {404, 400}, inline |-> FALSE,
     expect |-> "failed to get coin exchange rate"],
    [name |-> "get_gem_exchange", file |-> "commerce", endpoint |-> "exchange_gems", arg |-> "number", param |-> <<"q", "u", "a", "n", "t", "i", "t", "y">>,
     auth |-> FALSE, valid |-> {200}, invalid |-> {404, 400}, inline |-> FALSE,
     expect |-> "failed to get gem exchange rate"],
    [name |-> "get_listing_ids", file |-> "commerce", endpoint |-> "all_listings", arg |-> "none", param |-> <<>>,
     auth |-> FALSE, valid |-> {200}, invalid |-> {404}, inline |-> FALSE,
     expect |-> "failed to get listings IDs"],
    [name |-> "get_listing", file |-> "commerce", endpoint |-> "listings_id", arg |-> "number", param |-> <<"i", "d">>,
     auth |-> FALSE, valid |-> {200}, invalid |-> {404}, inline |-> FALSE,
     expect |-> "failed to get item listing"],
    [name |-> "get_listings", file |-> "commerce", endpoint |-> "listings_id", arg |-> "numbers", param |-> <<"i", "d", "s">>,
     auth |-> FALSE, valid |-> {200}, invalid |-> {404}, inline |-> FALSE,
     expect |-> "failed to get item listings"],
    [name |-> "get_pricing_ids", file |-> "commerce", endpoint |-> "all_prices", arg |-> "none", param |-> <<>>,
     auth |-> FALSE, valid |-> {200}, invalid |-> {404}, inline |-> FALSE,
     expect |-> "failed to get item IDs"],
    [name |-> "get_pricing", file |-> "commerce", endpoint |-> "prices_id", arg |-> "number", param |-> <<"i", "d">>,
     auth |-> FALSE, valid |-> {200}, invalid |-> {404}, inline |-> FALSE,
     expect |-> "failed to get item information"],
    [name |-> "get_pricings", file |-> "commerce", endpoint |-> "prices_id", arg |-> "numbers", param |-> <<"i", "d", "s">>,
     auth |-> FALSE, valid |-> {200}, invalid |-> {404}, inline |-> FALSE,
     expect |-> "failed to get item information"],
    [name |-> "get_current_buy_transactions", file |-> "commerce", endpoint |-> "current_buy", arg |-> "none", param |-> <<>>,
     auth |-> TRUE, valid |-> {200}, invalid |-> {403}, inline |-> FALSE,
     expect |-> "failed to get transactions"],
    [name |-> "get_current_sell_transactions", file |-> "commerce", endpoint |-> "current_sell", arg |-> "none", param |-> <<>>,
     auth |-> TRUE, valid |-> {200}, invalid |-> {403}, inline |-> FALSE,
     expect |-> "failed to get transactions"],
    [name |-> "get_history_buy_transactions", file |-> "commerce", endpoint |-> "history_buy", arg |-> "none", param |-> <<>>,
     auth |-> TRUE, valid |-> {200}, invalid |-> {403}, inline |-> FALSE,
     expect |-> "failed to get transactions"],
    [name |-> "get_history_sell_transactions", file |-> "commerce", endpoint |-> "history_sell", arg |-> "none", param |-> <<>>,
     auth |-> TRUE, valid |-> {200}, invalid |-> {403}, inline |-> FALSE,
     expect |-> "failed to get transactions"]
}

\* get_endpoint! of api_v2/account.rs: the path of the named endpoint, id put at the
\* template's substitution point (ignored by the templates that have none).
get_endpoint_account(name, id) ==
    \* "/v2/account"
    CASE name = "account" -> <<"/", "v", "2", "/", "a", "c", "c", "o", "u", "n", "t">>
    \* "/v2/account/achievements"
      [] name = "achievements" -> <<"/", "v", "2", "/", "a", "c", "c", "o", "u", "n", "t", "/", "a", "c", "h", "i", "e", "v", "e", "m", "e", "n", "t", "s">>
    \* "/v2/account/bank"
      [] name = "bank" -> <<"/", "v", "2", "/", "a", "c", "c", "o", "u", "n", "t", "/", "b", "a", "n", "k">>
    \* "/v2/account/dungeons"
      [] name = "dungeons" -> <<"/", "v", "2", "/", "a", "c", "c", "o", "u", "n", "t", "/", "d", "u", "n", "g", "e", "o", "n", "s">>
    \* "/v2/account/dyes"
      [] name = "dyes" -> <<"/", "v", "2", "/", "a", "c", "c", "o", "u", "n", "t", "/", "d", "y", "e", "s">>
    \* "/v2/account/finishers"
      [] name = "finishers" -> <<"/", "v", "2", "/", "a", "c", "c", "o", "u", "n", "t", "/", "f", "i", "n", "i", "s", "h", "e", "r", "s">>
    \* "/v2/account/home/cats"
      [] name = "cats" -> <<"/", "v", "2", "/", "a", "c", "c", "o", "u", "n", "t", "/", "h", "o", "m", "e", "/", "c", "a", "t", "s">>
    \* "/v2/account/home/nodes"
      [] name = "nodes" -> <<"/", "v", "2", "/", "a", "c", "c", "o", "u", "n", "t", "/", "h", "o", "m", "e", "/", "n", "o", "d", "e", "s">>
    \* "/v2/account/inventory"
      [] name = "inventory" -> <<"/", "v", "2", "/", "a", "c", "c", "o", "u", "n", "t", "/", "i", "n", "v", "e", "n", "t", "o", "r", "y">>
    \* "/v2/account/masteries"
      [] name = "masteries" -> <<"/", "v", "2", "/", "a", "c", "c", "o", "u", "n", "t", "/", "m", "a", "s", "t", "e", "r", "i", "e", "s">>
    \* "/v2/account/materials"
      [] name = "materials" -> <<"/", "v", "2", "/", "a", "c", "c", "o", "u", "n", "t", "/", "m", "a", "t", "e", "r", "i", "a", "l", "s">>
    \* "/v2/account/minis"
      [] name = "minis" -> <<"/", "v", "2", "/", "a", "c", "c", "o", "u", "n", "t", "/", "m", "i", "n", "i", "s">>
    \* "/v2/account/outfits"
      [] name = "outfits" -> <<"/", "v", "2", "/", "a", "c", "c", "o", "u", "n", "t", "/", "o", "u", "t", "f", "i", "t", "s">>
    \* "/v2/account/raids"
      [] name = "raids" -> <<"/", "v", "2", "/", "a", "c", "c", "o", "u", "n", "t", "/", "r", "a", "i", "d", "s">>
    \* "/v2/account/recipes"
      [] name = "recipes" -> <<"/", "v", "2", "/", "a", "c", "c", "o", "u", "n", "t", "/", "r", "e", "c", "i", "p", "e", "s">>
    \* "/v2/account/skins"
      [] name = "skins" -> <<"/", "v", "2", "/", "a", "c", "c", "o", "u", "n", "t", "/", "s", "k", "i", "n", "s">>
    \* "/v2/account/titles"
      [] name = "titles" -> <<"/", "v", "2", "/", "a", "c", "c", "o", "u", "n", "t", "/", "t", "i", "t", "l", "e", "s">>
    \* "/v2/account/wallet"
      [] name = "wallet" -> <<"/", "v", "2", "/", "a", "c", "c", "o", "u", "n", "t", "/", "w", "a", "l", "l", "e", "t">>
    \* "/v2/characters"
      [] name = "characters" -> <<"/", "v", "2", "/", "c", "h", "a", "r", "a", "c", "t", "e", "r", "s">>
    \* "/v2/commerce/transactions"
      [] name = "transactions" -> <<"/", "v", "2", "/", "c", "o", "m", "m", "e", "r", "c", "e", "/", "t", "r", "a", "n", "s", "a", "c", "t", "i", "o", "n", "s">>
    \* "/v2/pvp/stats"
      [] name = "pvp-stats" -> <<"/", "v", "2", "/", "p", "v", "p", "/", "s", "t", "a", "t", "s">>
    \* "/v2/pvp/games"
      [] name = "pvp-games" -> <<"/", "v", "2", "/", "p", "v", "p", "/", "g", "a", "m", "e", "s">>
    \* "/v2/pvp/standings"
      [] name = "pvp-standings" -> <<"/", "v", "2", "/", "p", "v", "p", "/", "s", "t", "a", "n", "d", "i", "n", "g", "s">>
    \* "/v2/tokeninfo"
      [] name = "tokeninfo" -> <<"/", "v", "2", "/", "t", "o", "k", "e", "n", "i", "n", "f", "o">>

\* The endpoint wrappers of api_v2/account.rs: the endpoint each one requests, how its
\* argument is encoded, whether it authenticates, the status codes it declares and
\* the message of its .expect() on the transport result.
account_wrappers == {
    [name |-> "get_account", file |-> "account", endpoint |-> "account", arg |-> "none", param |-> <<>>,
     auth |-> TRUE, valid |-> {200}, invalid |-> {403}, inline |-> FALSE,
     expect |-> "failed to get account"],
    [name |-> "get_account_achievements", file |-> "account", endpoint |-> "achievements", arg |-> "none", param |-> <<>>,
     auth |-> TRUE, valid |-> {200}, invalid |-> {403}, inline |-> FALSE,
     expect |-> "failed to get account achievements"],
    [name |-> "get_account_bank", file |-> "account", endpoint |-> "bank", arg |-> "none", param |-> <<>>,
     auth |-> TRUE, valid |-> {200}, invalid |-> {403}, inline |-> FALSE,
     expect |-> "failed to get account bank"],
    [name |-> "get_account_dungeons", file |-> "account", endpoint |-> "dungeons", arg |-> "none", param |-> <<>>,
     auth |-> TRUE, valid |-> {200}, invalid |-> {403}, inline |-> FALSE,
     expect |-> "failed to get account dungeons"],
    [name |-> "get_account_dyes", file |-> "account", endpoint |-> "dyes", arg |-> "none", param |-> <<>>,
     auth |-> TRUE, valid |-> {200}, invalid |-> {403}, inline |-> FALSE,
     expect |-> "failed to get account dyes"],
    [name |-> "get_account_finishers", file |-> "account", endpoint |-> "finishers", arg |-> "none", param |-> <<>>,
     auth |-> TRUE, valid |-> {200}, invalid |-> {403}, inline |-> FALSE,
     expect |-> "failed to get account finishers"],
    [name |-> "get_account_cats", file |-> "account", endpoint |-> "cats", arg |-> "none", param |-> <<>>,
     auth |-> TRUE, valid |-> {200}, invalid |-> {403}, inline |-> FALSE,
     expect |-> "failed to get account cats"],
    [name |-> "get_account_nodes", file |-> "account", endpoint |-> "nodes", arg |-> "none", param |-> <<>>,
     auth |-> TRUE, valid |-> {200}, invalid |-> {403}, inline |-> FALSE,
     expect |-> "failed to get account nodes"],
    [name |-> "get_account_inventory", file |-> "account", endpoint |-> "inventory", arg |-> "none", param |-> <<>>,
     auth |-> TRUE, valid |-> {200}, invalid |-> {403}, inline |-> FALSE,
     expect |-> "failed to get shared account inventory slots"],
    [name |-> "get_account_masteries", file |-> "account", endpoint |-> "masteries", arg |-> "none", param |-> <<>>,
     auth |-> TRUE, valid |-> {200}, invalid |-> {403}, inline |-> FALSE,
     expect |-> "failed to get account masteries"],
    [name |-> "get_account_materials", file |-> "account", endpoint |-> "materials", arg |-> "none", param |-> <<>>,
     auth |-> TRUE, valid |-> {200}, invalid |-> {403}, inline |-> FALSE,
     expect |-> "failed to get account materials"],
    [name |-> "get_account_minis", file |-> "account", endpoint |-> "minis", arg |-> "none", param |-> <<>>,
     auth |-> TRUE, valid |-> {200}, invalid |-> {403}, inline |-> FALSE,
     expect |-> "failed to get account minis"],
    [name |-> "get_account_outfits", file |-> "account", endpoint |-> "outfits", arg |-> "none", param |-> <<>>,
     auth |-> TRUE, valid |-> {200}, invalid |-> {403}, inline |-> FALSE,
     expect |-> "failed to get account outfits"],
    [name |-> "get_account_raids", file |-> "account", endpoint |-> "raids", arg |-> "none", param |-> <<>>,
     auth |-> TRUE, valid |-> {200}, invalid |-> {403}, inline |-> FALSE,
     expect |-> "failed to get account raids"],
    [name |-> "get_account_recipes", file |-> "account", endpoint |-> "recipes", arg |-> "none", param |-> <<>>,
     auth |-> TRUE, valid |-> {200}, invalid |-> {403}, inline |-> FALSE,
     expect |-> "failed to get account recipes"],
    [name |-> "get_account_skins", file |-> "account", endpoint |-> "skins", arg |-> "none", param |-> <<>>,
     auth |-> TRUE, valid |-> {200}, invalid |-> {403}, inline |-> FALSE,
     expect |-> "failed to get account skins"],
    [name |-> "get_account_titles", file |-> "account", endpoint |-> "titles", arg |-> "none", param |-> <<>>,
     auth |-> TRUE, valid |-> {200}, invalid |-> {403}, inline |-> FALSE,
     expect |-> "failed to get account titles"],
    [name |-> "get_account_wallet", file |-> "account", endpoint |-> "wallet", arg |-> "none", param |-> <<>>,
     auth |-> TRUE, valid |-> {200}, invalid |-> {403}, inline |-> FALSE,
     expect |-> "failed to get account wallet"]
}

\* get_endpoint! of api_v2/characters.rs: the path of the named endpoint, id put at the
\* template's substitution point (ignored by the templates that have none).
get_endpoint_characters(name, id) ==
    \* "/v2/characters"
    CASE name = "names" -> <<"/", "v", "2", "/", "c", "h", "a", "r", "a", "c", "t", "e", "r", "s">>
    \* "/v2/characters/{}"
      [] name = "character" -> <<"/", "v", "2", "/", "c", "h", "a", "r", "a", "c", "t", "e", "r", "s", "/">> \o id
    \* "/v2/characters/{}/backstory"
      [] name = "backstory" -> <<"/", "v", "2", "/", "c", "h", "a", "r", "a", "c", "t", "e", "r", "s", "/">> \o id \o <<"/", "b", "a", "c", "k", "s", "t", "o", "r", "y">>
    \* "/v2/characters/{}/core"
      [] name = "core" -> <<"/", "v", "2", "/", "c", "h", "a", "r", "a", "c", "t", "e", "r", "s", "/">> \o id \o <<"/", "c", "o", "r", "e">>
    \* "/v2/characters/{}/crafting"
      [] name = "crafting" -> <<"/", "v", "2", "/", "c", "h", "a", "r", "a", "c", "t", "e", "r", "s", "/">> \o id \o <<"/", "c", "r", "a", "f", "t", "i", "n", "g">>
    \* "/v2/characters/{}/equipment"
      [] name = "equip" -> <<"/", "v", "2", "/", "c", "h", "a", "r", "a", "c", "t", "e", "r", "s", "/">> \o id \o <<"/", "e", "q", "u", "i", "p", "m", "e", "n", "t">>
    \* "/v2/characters/{}/heropoints"
      [] name = "hp" -> <<"/", "v", "2", "/", "c", "h", "a", "r", "a", "c", "t", "e", "r", "s", "/">> \o id \o <<"/", "h", "e", "r", "o", "p", "o", "i", "n", "t", "s">>
    \* "/v2/characters/{}/inventory"
      [] name = "inv" -> <<"/", "v", "2", "/", "c", "h", "a", "r", "a", "c", "t", "e", "r", "s", "/">> \o id \o <<"/", "i", "n", "v", "e", "n", "t", "o", "r", "y">>
    \* "/v2/characters/{}/recipes"
      [] name = "recipes" -> <<"/", "v", "2", "/", "c", "h", "a", "r", "a", "c", "t", "e", "r", "s", "/">> \o id \o <<"/", "r", "e", "c", "i", "p", "e", "s">>
    \* "/v2/characters/{}/sab"
      [] name = "sab" -> <<"/", "v", "2", "/", "c", "h", "a", "r", "a", "c", "t", "e", "r", "s", "/">> \o id \o <<"/", "s", "a", "b">>
    \* "/v2/characters/{}/skills"
      [] name = "skills" -> <<"/", "v", "2", "/", "c", "h", "a", "r", "a", "c", "t", "e", "r", "s", "/">> \o id \o <<"/", "s", "k", "i", "l", "l", "s">>
    \* "/v2/characters/{}/specializations"
      [] name = "specs" -> <<"/", "v", "2", "/", "c", "h", "a", "r", "a", "c", "t", "e", "r", "s", "/">> \o id \o <<"/", "s", "p", "e", "c", "i", "a", "l", "i", "z", "a", "t", "i", "o", "n", "s">>
    \* "/v2/characters/{}/training"
      [] name = "training" -> <<"/", "v", "2", "/", "c", "h", "a", "r", "a", "c", "t", "e", "r", "s", "/">> \o id \o <<"/", "t", "r", "a", "i", "n", "i", "n", "g">>

\* The endpoint wrappers of api_v2/characters.rs: the endpoint each one requests, how its
\* argument is encoded, whether it authenticates, the status codes it declares and
\* the message of its .expect() on the transport result.
characters_wrappers == {
    [name |-> "get_character", file |-> "characters", endpoint |-> "character", arg |-> "path", param |-> <<>>,
     auth |-> TRUE, valid |-> {200}, invalid |-> {404, 403}, inline |-> FALSE,
     expect |-> "failed to get character"],
    [name |-> "get_character_backstory", file |-> "characters", endpoint |-> "backstory", arg |-> "path", param |-> <<>>,
     auth |-> TRUE, valid |-> {200}, invalid |-> {404, 403, 400}, inline |-> FALSE,
     expect |-> "failed to get character backstory"],
    [name |-> "get_character_core", file |-> "characters", endpoint |-> "core", arg |-> "path", param |-> <<>>,
     auth |-> TRUE, valid |-> {200}, invalid |-> {404, 403, 400}, inline |-> FALSE,
     expect |-> "failed to get character information"],
    [name |-> "get_character_crafting", file |-> "characters", endpoint |-> "crafting", arg |-> "path", param |-> <<>>,
     auth |-> TRUE, valid |-> {200}, invalid |-> {404, 403, 400}, inline |-> FALSE,
     expect |-> "failed to get crafting disciplines"],
    [name |-> "get_character_equipment", file |-> "characters", endpoint |-> "equip", arg |-> "path", param |-> <<>>,
     auth |-> TRUE, valid |-> {200}, invalid |-> {404, 403, 400}, inline |-> FALSE,
     expect |-> "failed to get character equipment"],
    [name |-> "get_character_heropoints", file |-> "characters", endpoint |-> "hp", arg |-> "path", param |-> <<>>,
     auth |-> TRUE, valid |-> {200}, invalid |-> {404, 403, 400}, inline |-> FALSE,
     expect |-> "failed to get hero points"],
    [name |-> "get_character_inventory", file |-> "characters", endpoint |-> "inv", arg |-> "path", param |-> <<>>,
     auth |-> TRUE, valid |-> {200}, invalid |-> {404, 403, 400}, inline |-> FALSE,
     expect |-> "failed to get character inventory"],
    [name |-> "get_character_names", file |-> "characters", endpoint |-> "names", arg |-> "none", param |-> <<>>,
     auth |-> TRUE, valid |-> {200}, invalid |-> {403}, inline |-> FALSE,
     expect |-> "failed to get character names"],
    [name |-> "get_character_recipes", file |-> "characters", endpoint |-> "recipes", arg |-> "path", param |-> <<>>,
     auth |-> TRUE, valid |-> {200}, invalid |-> {404, 403, 400}, inline |-> FALSE,
     expect |-> "failed to get unlocked recipes"],
    [name |-> "get_character_sab", file |-> "characters", endpoint |-> "sab", arg |-> "path", param |-> <<>>,
     auth |-> TRUE, valid |-> {200}, invalid |-> {404, 403}, inline |-> FALSE,
     expect |-> "failed to get SAB progress"],
    [name |-> "get_character_skills", file |-> "characters", endpoint |-> "skills", arg |-> "path", param |-> <<>>,
     auth |-> TRUE, valid |-> {200}, invalid |-> {404, 403, 400}, inline |-> FALSE,
     expect |-> "failed to get character skills"],
    [name |-> "get_character_specializations", file |-> "characters", endpoint |-> "specs", arg |-> "path", param |-> <<>>,
     auth |-> TRUE, valid |-> {200}, invalid |-> {404, 403, 400}, inline |-> FALSE,
     expect |-> "failed to get character specializations"],
    [name |-> "get_character_training", file |-> "characters", endpoint |-> "training", arg |-> "path", param |-> <<>>,
     auth |-> TRUE, valid |-> {200}, invalid |-> {404, 403, 400}, inline |-> FALSE,
     expect |-> "failed to get character training"]
}
\* Every endpoint wrapper of the library.
Wrappers == (((core_wrappers \cup achievements_wrappers) \cup commerce_wrappers)
             \cup account_wrappers) \cup characters_wrappers

\* The arguments a wrapper can be called with.
Args(w) ==
    CASE w.arg = "none" -> {<<>>}
      [] w.arg = "number" -> NumArgs
      [] w.arg = "numbers" -> SeqsUpTo(ListNums, MaxIds)
      [] w.arg = "string" -> StrArgs
      [] w.arg = "strings" -> SeqsUpTo(StrArgs, MaxIds)
      [] w.arg = "path" -> NameArgs

\* encode_arg with the spaces of a character name percent-encoded.
RECURSIVE escape_spaces(_)
escape_spaces(s) ==
    IF s = <<>> THEN <<>>
    ELSE (IF Head(s) = " " THEN <<"%", "2", "0">> ELSE <<Head(s)>>) \o escape_spaces(Tail(s))
encode_arg_escaped(w, a) ==
    CASE w.arg = "none" -> <<>>
      [] w.arg = "number" -> number_to_param(w.param, a)
      [] w.arg = "numbers" -> numbers_to_param(w.param, a)
      [] w.arg = "string" -> string_to_param(w.param, a)
      [] w.arg = "strings" -> strings_to_param(w.param, a)
      [] w.arg = "path" -> escape_spaces(a)

\* The query fragment or path segment a wrapper makes of its argument.
encode_arg(w, a) ==
    CASE w.arg = "none" -> <<>>
      [] w.arg = "number" -> number_to_param(w.param, a)
      [] w.arg = "numbers" -> numbers_to_param(w.param, a)
      [] w.arg = "string" -> string_to_param(w.param, a)
      [] w.arg = "strings" -> strings_to_param(w.param, a)
      [] w.arg = "path" -> a

\* The get_endpoint! macro of the wrapper's file.
get_endpoint(w, id) ==
    CASE w.file = "core" -> get_endpoint_core(w.endpoint, id)
      [] w.file = "achievements" -> get_endpoint_achievements(w.endpoint, id)
      [] w.file = "commerce" -> get_endpoint_commerce(w.endpoint, id)
      [] w.file = "account" -> get_endpoint_account(w.endpoint, id)
      [] w.file = "characters" -> get_endpoint_characters(w.endpoint, id)

\* The first half of a wrapper: encode the argument, resolve the endpoint and
\* hand the path to the client.
wrapper_send(self, w, a) ==
    IF w.auth THEN make_authenticated_request(self, get_endpoint(w, encode_arg(w, a)))
    ELSE make_request(self, get_endpoint(w, encode_arg(w, a)))

\* achievements_check that takes 206 for a success, as the batch wrappers of
\* core.rs do.
achievements_check_accepts_206(response) ==
    IF response.status = 200 \/ response.status = 206
    THEN LET r == json_T(response) IN IF r.ok THEN Ok(r.val) ELSE Panic(UnwrapMsg)
    ELSE IF response.status = 404
    THEN LET r == json_APIError(response) IN IF r.ok THEN Err(r.val) ELSE Panic(UnwrapMsg)
    ELSE Err(APIError_new(
             <<"u", "n", "k", "n", "o", "w", "n", " ", "s", "t", "a", "t", "u", "s", " ",
               "c", "o", "d", "e">>))

\* The status check written out in every wrapper of achievements.rs: the body
\* as the success type on 200, as an APIError on 404, else an error
\* "unknown status code".
achievements_check(response) ==
    IF response.status = 200
    THEN LET r == json_T(response) IN IF r.ok THEN Ok(r.val) ELSE Panic(UnwrapMsg)
    ELSE IF response.status = 404
    THEN LET r == json_APIError(response) IN IF r.ok THEN Err(r.val) ELSE Panic(UnwrapMsg)
    ELSE Err(APIError_new(
             \* "unknown status code"
             <<"u", "n", "k", "n", "o", "w", "n", " ", "s", "t", "a", "t", "u", "s", " ",
               "c", "o", "d", "e">>))

\* wrapper_result with one policy for every call site: 200 and 206 are
\* successes and 404 is the documented failure.
wrapper_result_global_policy(w, r) ==
    IF r.kind = "error" THEN Panic(w.expect)
    ELSE IF w.inline THEN achievements_check(r)
    ELSE parse_response(r, {200, 206}, {404})

\* wrapper_result where no call site declares 400.
wrapper_result_ignores_400(w, r) ==
    IF r.kind = "error" THEN Panic(w.expect)
    ELSE IF w.inline THEN achievements_check(r)
    ELSE parse_response(r, w.valid, w.invalid \ {400})

\* The second half of a wrapper: .expect() on what the transport returned,
\* then the dispatch on the response.
wrapper_result(w, r) ==
    IF r.kind = "error" THEN Panic(w.expect)
    ELSE IF w.inline THEN achievements_check(r)
    ELSE parse_response(r, w.valid, w.invalid)

\* A call of parse_response that is not made by a wrapper of the library: its
\* call site declares the two status sets and nothing else.
call_site(valid, invalid) ==
    [name |-> "parse_response", file |-> "util", endpoint |-> "", arg |-> "none",
     param |-> <<>>, auth |-> FALSE, valid |-> valid, invalid |-> invalid,
     inline |-> FALSE, expect |-> ""]

\* A call of make_request or make_authenticated_request that is not made by a
\* wrapper of the library: the caller gives the URL and gets the Result of
\* the transport back.
direct_call(auth) ==
    [name |-> IF auth THEN "make_authenticated_request" ELSE "make_request",
     file |-> "client", endpoint |-> "", arg |-> "url", param |-> <<>>, auth |-> auth,
     valid |-> {}, invalid |-> {}, inline |-> FALSE, expect |-> ""]
\* What the two request methods return: the reqwest::Result of send(), Ok with
\* the response, its body unread, or Err with the error of the transport.
reqwest_result(r) ==
    IF r.kind = "error" THEN [kind |-> "Err", error |-> r]
    ELSE [kind |-> "Ok", value |-> r]

\* ---------------------------------------------------------------- state
VARIABLES
    client,    \* the session: [lang, token]
    pc,        \* where the caller is: "idle", "waiting" (GET sent by a wrapper),
               \* "requesting" (GET sent by the caller itself), "done"
    call,      \* the wrapper called and its argument, None when idle
    request,   \* the request the call sent, None when none was sent
    response,  \* what the transport returned to the call, None before it did
    outcome,   \* what the call ended in
    gets,      \* how many GETs the session has sent since it was constructed
    prev,      \* the call that ended last, with its response and outcome
    threads    \* the calls of the callers that share the session concurrently

vars == <<client, pc, call, request, response, outcome, gets, prev, threads>>

\* A caller that is not in a call.
IdleThread == [pc |-> "idle", call |-> None, request |-> None, response |-> None,
               outcome |-> NoOutcome]

\* The caller constructs a session.
Init ==
    /\ client \in {APIClient_new(l, t) : l \in Langs, t \in Option(Tokens)}
    /\ pc = "idle"
    /\ call = None
    /\ request = None
    /\ response = None
    /\ outcome = NoOutcome
    /\ gets = 0
    /\ prev = None
    /\ threads = [t \in Threads |-> IdleThread]

\* Call with the token moved out of the session (take) instead of copied.
Call_takes_token(w, a) ==
    /\ pc = "idle"
    /\ gets < MaxGets
    /\ LET s == wrapper_send(client, w, a) IN
         /\ call' = Some([w |-> w, arg |-> a])
         /\ IF s.sent
            THEN /\ request' = Some(s.request)
                 /\ gets' = gets + 1
                 /\ pc' = "waiting"
                 /\ outcome' = NoOutcome
            ELSE /\ request' = None
                 /\ gets' = gets
                 /\ pc' = "done"
                 /\ outcome' = Panic(s.panic)
    /\ client' = IF w.auth THEN [client EXCEPT !.token = None] ELSE client
    /\ UNCHANGED <<response, prev, threads>>

\* The caller calls wrapper w with argument a: the wrapper builds the path and
\* the client sends the GET, or panics for want of a token.
Call(w, a) ==
    /\ pc = "idle"
    /\ gets < MaxGets
    /\ LET s == wrapper_send(client, w, a) IN
         /\ call' = Some([w |-> w, arg |-> a])
         /\ IF s.sent
            THEN /\ request' = Some(s.request)
                 /\ gets' = gets + 1
                 /\ pc' = "waiting"
                 /\ outcome' = NoOutcome
            ELSE /\ request' = None
                 /\ gets' = gets
                 /\ pc' = "done"
                 /\ outcome' = Panic(s.panic)
    /\ UNCHANGED <<client, response, prev, threads>>

\* Complete that answers from the call before when there was one, as a cache
\* keyed on nothing would.
Complete_stale(r) ==
    /\ pc = "waiting"
    /\ response' = Some(r)
    /\ outcome' = IF prev # None THEN prev[1].outcome ELSE wrapper_result(call[1].w, r)
    /\ pc' = "done"
    /\ UNCHANGED <<client, call, request, gets, prev, threads>>

\* Complete that sends the request again when the server answers 500.
Complete_retries(r) ==
    /\ pc = "waiting"
    /\ IF r.kind = "response" /\ r.status = 500 /\ gets < MaxGets
       THEN /\ gets' = gets + 1
            /\ UNCHANGED <<pc, response, outcome>>
       ELSE /\ response' = Some(r)
            /\ outcome' = wrapper_result(call[1].w, r)
            /\ pc' = "done"
            /\ gets' = gets
    /\ UNCHANGED <<client, call, request, prev, threads>>

\* The transport returns r and the wrapper runs to its end.
Complete(r) ==
    /\ pc = "waiting"
    /\ response' = Some(r)
    /\ outcome' = wrapper_result(call[1].w, r)
    /\ pc' = "done"
    /\ UNCHANGED <<client, call, request, gets, prev, threads>>

\* The caller hands a response it holds to parse_response itself, with status
\* sets of its own choice; no request is sent.
Dispatch(r, valid, invalid) ==
    /\ pc = "idle"
    /\ call' = Some([w |-> call_site(valid, invalid), arg |-> <<>>])
    /\ request' = None
    /\ response' = Some(r)
    /\ outcome' = parse_response(r, valid, invalid)
    /\ pc' = "done"
    /\ UNCHANGED <<client, gets, prev, threads>>

\* The caller calls make_request (auth FALSE) or make_authenticated_request
\* (auth TRUE) itself with the URL url: the client sends the GET, or panics
\* for want of a token.
Request(auth, url) ==
    /\ pc = "idle"
    /\ gets < MaxGets
    /\ LET s == IF auth THEN make_authenticated_request(client, url)
                ELSE make_request(client, url) IN
         /\ call' = Some([w |-> direct_call(auth), arg |-> url])
         /\ IF s.sent
            THEN /\ request' = Some(s.request)
                 /\ gets' = gets + 1
                 /\ pc' = "requesting"
                 /\ outcome' = NoOutcome
            ELSE /\ request' = None
                 /\ gets' = gets
                 /\ pc' = "done"
                 /\ outcome' = Panic(s.panic)
    /\ UNCHANGED <<client, response, prev, threads>>

\* The transport returns r to a call the caller made itself, and the method
\* hands it on as it is.
RequestReturns(r) ==
    /\ pc = "requesting"
    /\ response' = Some(r)
    /\ outcome' = reqwest_result(r)
    /\ pc' = "done"
    /\ UNCHANGED <<client, call, request, gets, prev, threads>>

\* The call is over; the caller is free to make the next one.
Return ==
    /\ pc = "done"
    /\ pc' = "idle"
    /\ call' = None
    /\ request' = None
    /\ response' = None
    /\ outcome' = NoOutcome
    /\ UNCHANGED <<client, gets, prev, threads>>

Next ==
    \/ \E w \in Wrappers : \E a \in Args(w) : Call(w, a)
    \/ \E r \in TransportResults : Complete(r)
    \/ \E r \in Responses : \E valid \in StatusSets : \E invalid \in StatusSets :
           Dispatch(r, valid, invalid)
    \/ \E auth \in BOOLEAN : \E url \in DirectUrls : Request(auth, url)
    \/ \E r \in TransportResults : RequestReturns(r)
    \/ Return

Spec == Init /\ [][Next]_vars

\* ------------------------------------------------- concurrent callers
\* The session is shared by reference (&APIClient) among callers that run
\* their calls concurrently; each call has its own request, response and
\* outcome.  The calls and answers are drawn from a few of each kind.
ConcCallsOf(w) ==
    CASE w.arg = "number" -> {42}
      [] w.arg = "none" -> {<<>>}
      [] w.arg = "path" -> {<<"B", "o", "b">>}
ConcWrappers == {w \in Wrappers : w.name \in {"get_mastery", "get_account", "get_character"}}
ConcResults ==
    {TransportError} \cup
    {r \in Responses : /\ r.status \in {200, 404}
                       /\ r.body \in {[data |-> <<"v1">>, text |-> None],
                                      [data |-> None, text |-> <<(<<"d", "e", "n", "i", "e", "d">>)>>]}}

\* Caller t calls wrapper w with argument a.
TCall(t, w, a) ==
    /\ threads[t].pc = "idle"
    /\ gets < MaxGets
    /\ LET s == wrapper_send(client, w, a) IN
         IF s.sent
         THEN /\ threads' = [threads EXCEPT ![t] =
                                [pc |-> "waiting", call |-> Some([w |-> w, arg |-> a]),
                                 request |-> Some(s.request), response |-> None,
                                 outcome |-> NoOutcome]]
              /\ gets' = gets + 1
         ELSE /\ threads' = [threads EXCEPT ![t] =
                                [pc |-> "done", call |-> Some([w |-> w, arg |-> a]),
                                 request |-> None, response |-> None,
                                 outcome |-> Panic(s.panic)]]
              /\ gets' = gets
    /\ UNCHANGED <<client, pc, call, request, response, outcome, prev>>

\* TComplete with one response buffer for all the callers: what the transport
\* returns ends the call of every caller that waits.
TComplete_shared_buffer(t, r) ==
    /\ threads[t].pc = "waiting"
    /\ threads' = [u \in Threads |->
                      IF threads[u].pc = "waiting"
                      THEN [threads[u] EXCEPT !.pc = "done", !.response = Some(r),
                                              !.outcome = wrapper_result(threads[u].call[1].w, r)]
                      ELSE threads[u]]
    /\ UNCHANGED <<client, pc, call, request, response, outcome, gets, prev>>

\* The transport returns r to caller t and its wrapper runs to its end.
TComplete(t, r) ==
    /\ threads[t].pc = "waiting"
    /\ threads' = [threads EXCEPT ![t].pc = "done",
                                  ![t].response = Some(r),
                                  ![t].outcome = wrapper_result(threads[t].call[1].w, r)]
    /\ UNCHANGED <<client, pc, call, request, response, outcome, gets, prev>>

\* The call of caller t is over.
TReturn(t) ==
    /\ threads[t].pc = "done"
    /\ threads' = [threads EXCEPT ![t] = IdleThread]
    /\ UNCHANGED <<client, pc, call, request, response, outcome, gets, prev>>

NextConc ==
    \/ \E t \in Threads : \E w \in ConcWrappers : \E a \in ConcCallsOf(w) : TCall(t, w, a)
    \/ \E t \in Threads : \E r \in ConcResults : TComplete(t, r)
    \/ \E t \in Threads : TReturn(t)

SpecConc == Init /\ [][NextConc]_vars

\* ------------------------------------------------- one call after another
\* The same caller making call after call, with the call that ended last kept
\* in prev when it returns.
ReturnRecorded ==
    /\ pc = "done"
    /\ prev' = Some([call |-> call, response |-> response, outcome |-> outcome])
    /\ pc' = "idle"
    /\ call' = None
    /\ request' = None
    /\ response' = None
    /\ outcome' = NoOutcome
    /\ UNCHANGED <<client, gets, threads>>

NextRepeat ==
    \/ \E w \in ConcWrappers : \E a \in ConcCallsOf(w) : Call(w, a)
    \/ \E r \in ConcResults : Complete(r)
    \/ ReturnRecorded

SpecRepeat == Init /\ [][NextRepeat]_vars

\* ---------------------------------------------------------------- properties
\* The wrapper of the current call, and whether the call, of a wrapper or of
\* parse_response, ended on a response it dispatched on.
TheWrapper == call[1].w
TheArg == call[1].arg
GotResponse ==
    /\ pc = "done"
    /\ response # None
    /\ response[1].kind = "response"
    /\ TheWrapper.file # "client"
TheStatus == response[1].status
TheBody == response[1].body

IsPrefix(p, s) == Len(p) <= Len(s) /\ SubSeq(s, 1, Len(p)) = p
IsSubstring(p, s) ==
    \E i \in 1..(Len(s) - Len(p) + 1) : SubSeq(s, i, i + Len(p) - 1) = p
\* The origin of the API and the head of every path of its version 2.
OriginText ==
    <<"h", "t", "t", "p", "s", ":", "/", "/", "a", "p", "i", ".", "g", "u", "i", "l", "d",
      "w", "a", "r", "s", "2", ".", "c", "o", "m">>
V2Text == <<"/", "v", "2", "/">>
\* The path of a request: its URL without the origin.
PathOf(url) == SubSeq(url, Len(OriginText) + 1, Len(url))
\* A three-digit status code written in decimal.
Decimal3(n) == <<DigitChars[((n \div 100) % 10) + 1], DigitChars[((n \div 10) % 10) + 1],
                 DigitChars[(n % 10) + 1]>>
UnknownStatusText ==
    <<"u", "n", "k", "n", "o", "w", "n", " ", "s", "t", "a", "t", "u", "s", " ",
      "c", "o", "d", "e">>

\* C1: when the status of the response is in the valid set of the call and the
\* body is a well-formed value of the success type, the call returns Ok with
\* exactly the value the body holds.
C1_ValidStatusYieldsParsedValue ==
    (GotResponse /\ TheStatus \in TheWrapper.valid /\ TheBody.data # None)
        => outcome = [kind |-> "Ok", value |-> TheBody.data[1]]

\* A single-item lookup that received 200 and a well-formed body has returned.
C1_Witness ==
    /\ GotResponse
    /\ TheWrapper.name = "get_mastery"
    /\ TheStatus = 200
    /\ TheBody.data = <<"v1">>
    /\ outcome.kind = "Ok"

\* C2: when the status is not in the valid set but in the invalid set and the
\* body is a structured error record with text m, the call returns Err with an
\* error whose text is exactly m.
C2_InvalidStatusYieldsApiError ==
    (GotResponse /\ TheStatus \notin TheWrapper.valid /\ TheStatus \in TheWrapper.invalid
       /\ TheBody.text # None)
        => (outcome.kind = "Err" /\ outcome.error.text = TheBody.text[1])

\* A single-item lookup that received 404 with the text "not found" has returned.
C2_Witness ==
    /\ GotResponse
    /\ TheWrapper.name = "get_mastery"
    /\ TheStatus = 404
    /\ TheBody.text = <<(<<"n", "o", "t", " ", "f", "o", "u", "n", "d">>)>>
    /\ outcome.kind = "Err"

\* C3: when parse_response is given a status that is in neither set, the call
\* returns Err (it does not panic) and the text of the error is an
\* "unknown status code" message that contains the status code in decimal.
C3_UnknownStatusCarriesCode ==
    (GotResponse /\ ~TheWrapper.inline
       /\ TheStatus \notin (TheWrapper.valid \cup TheWrapper.invalid))
        => /\ outcome.kind = "Err"
           /\ IsPrefix(UnknownStatusText, outcome.error.text)
           /\ IsSubstring(Decimal3(TheStatus), outcome.error.text)

\* A wrapper that dispatches through parse_response received 500, whatever the body.
C3_Witness ==
    /\ GotResponse
    /\ ~TheWrapper.inline
    /\ TheStatus = 500
    /\ TheBody.data = None /\ TheBody.text = None
    /\ outcome.kind = "Err"

\* C4: for every wrapper of the library, those of achievements.rs included, a
\* response with a status the wrapper does not declare yields the
\* unknown-status error and the text of that error contains the status code.
C4_AnyWrapperUndeclaredStatusCarriesCode ==
    (GotResponse /\ TheStatus \notin (TheWrapper.valid \cup TheWrapper.invalid))
        => /\ outcome.kind = "Err"
           /\ IsPrefix(UnknownStatusText, outcome.error.text)
           /\ IsSubstring(Decimal3(TheStatus), outcome.error.text)

\* The part of s after the first occurrence of the character c.
RECURSIVE AfterFirst(_, _)
AfterFirst(s, c) ==
    IF s = <<>> THEN <<>>
    ELSE IF Head(s) = c THEN Tail(s) ELSE AfterFirst(Tail(s), c)
\* The pieces of s between the occurrences of the character c (str::split).
RECURSIVE SplitFrom(_, _, _)
SplitFrom(s, c, piece) ==
    IF s = <<>> THEN <<piece>>
    ELSE IF Head(s) = c THEN <<piece>> \o SplitFrom(Tail(s), c, <<>>)
    ELSE SplitFrom(Tail(s), c, Append(piece, Head(s)))
Split(s, c) == SplitFrom(s, c, <<>>)
\* The strings of ss joined by single commas.
RECURSIVE JoinComma(_)
JoinComma(ss) ==
    IF ss = <<>> THEN <<>>
    ELSE IF Len(ss) = 1 THEN ss[1]
    ELSE (ss[1] \o <<",">>) \o JoinComma(Tail(ss))
\* The wrappers that take a list of IDs, and the string forms of the IDs given.
IsBatch(w) == w.arg \in {"numbers", "strings"}
ElementStrings ==
    [i \in 1..Len(TheArg) |-> IF TheWrapper.arg = "numbers" THEN to_string(TheArg[i])
                              ELSE TheArg[i]]

\* C5: the query a batch wrapper sends for a non-empty list of IDs is the
\* parameter name, "=", and the string forms of the IDs in order joined by
\* single commas with nothing after the last one; split on "=" and then on ","
\* it gives back exactly the IDs.
C5_ListEncodingNoTrailingSeparator ==
    (request # None /\ IsBatch(TheWrapper) /\ TheArg # <<>>)
        => LET query == AfterFirst(request[1].url, "?") IN
             /\ query = (TheWrapper.param \o <<"=">>) \o JoinComma(ElementStrings)
             /\ Split(Split(query, "=")[2], ",") = ElementStrings

\* The batch wrappers of core.rs, which declare 206 Partial Content as valid.
PartialContentWrappers ==
    {"get_masteries", "get_outfits", "get_pets", "get_professions", "get_races",
     "get_specializations", "get_skills", "get_traits", "get_legends"}

\* C6: each of the batch wrappers of core.rs declares 206 next to 200 and goes
\* through parse_response, and for both statuses a response with a well-formed
\* array body makes the call return Ok with the parsed value.
C6_PartialContentIsSuccess ==
    (GotResponse /\ TheWrapper.name \in PartialContentWrappers /\ TheStatus \in {200, 206}
       /\ TheBody.data # None)
        => /\ {200, 206} \subseteq TheWrapper.valid
           /\ ~TheWrapper.inline
           /\ outcome = [kind |-> "Ok", value |-> TheBody.data[1]]

\* get_masteries received 206 with a well-formed body and returned Ok.
C6_Witness ==
    /\ GotResponse
    /\ TheWrapper.name = "get_masteries"
    /\ TheArg = <<1, 23>>
    /\ TheStatus = 206
    /\ TheBody.data = <<"v2">>
    /\ outcome.kind = "Ok"

\* C7: every wrapper that takes a list of IDs returns Ok on 206 as it does on
\* 200 when the body is well-formed, and every other wrapper returns Ok on no
\* status but 200.
C7_EveryBatchWrapperAccepts206 ==
    (GotResponse /\ TheBody.data # None)
        => /\ (IsBatch(TheWrapper) /\ TheStatus \in {200, 206}) => outcome.kind = "Ok"
           /\ (~IsBatch(TheWrapper) /\ TheStatus # 200) => outcome.kind # "Ok"

\* C8: on a status of the invalid set of the call the caller gets an Err value
\* back, whatever the body holds.
C8_DeclaredFailureNeverCrashes ==
    (GotResponse /\ TheStatus \notin TheWrapper.valid /\ TheStatus \in TheWrapper.invalid)
        => outcome.kind = "Err"

\* C9: on a status of the valid set with a body that does not deserialize as
\* the success type the caller gets an Err value back, and not the error the
\* body would give as a structured error record.
C9_MalformedSuccessBodyIsDistinctError ==
    (GotResponse /\ TheStatus \in TheWrapper.valid /\ TheBody.data = None)
        => /\ outcome.kind = "Err"
           /\ TheBody.text # None => outcome.error.text # TheBody.text[1]

\* The value by which a wrapper would hand the failure of the transport on to
\* its caller.
TransportFailure(e) == [kind |-> "TransportErr", error |-> e]

\* C10: when the transport reports a network-level failure the wrapper returns
\* that failure to its caller as a value of its own kind; it does not panic.
C10_TransportFailureIsReturned ==
    (pc = "done" /\ response = <<TransportError>> /\ TheWrapper.file # "client")
        => outcome = TransportFailure(response[1])

\* C11: every request sent for an authenticated wrapper carries the header
\* Authorization with the value "Bearer " followed by the token the session
\* was constructed with; get_account answered with 200 and a well-formed
\* account then returns Ok with the parsed account.
C11_AuthenticatedRequestCarriesBearer ==
    /\ (request # None /\ TheWrapper.auth)
           => /\ client.token # None
              /\ request[1].authorization
                     = <<(<<"B", "e", "a", "r", "e", "r", " ">> \o client.token[1])>>
    /\ (GotResponse /\ TheWrapper.name = "get_account" /\ TheStatus = 200
          /\ TheBody.data # None)
           => outcome = [kind |-> "Ok", value |-> TheBody.data[1]]

\* get_account on a session with token "abc" sent "Bearer abc" and returned Ok.
C11_Witness ==
    /\ GotResponse
    /\ TheWrapper.name = "get_account"
    /\ client.token = <<(<<"a", "b", "c">>)>>
    /\ request[1].authorization = <<(<<"B", "e", "a", "r", "e", "r", " ", "a", "b", "c">>)>>
    /\ TheStatus = 200
    /\ outcome.kind = "Ok"

\* C12: a request sent by make_request, for an unauthenticated wrapper or for
\* the caller itself, has no Authorization header, and it is the request
\* that a session with the same locale and any other token, or none, sends
\* for the same path.
C12_UnauthenticatedRequestHidesToken ==
    (request # None /\ ~TheWrapper.auth)
        => /\ request[1].authorization = None
           /\ \A t \in Option(Tokens) :
                  request[1] = make_request(APIClient_new(client.lang, t),
                                            PathOf(request[1].url)).request

\* A session that holds a token has sent the request of an unauthenticated wrapper.
C12_Witness ==
    /\ request # None
    /\ TheWrapper.name = "get_mastery"
    /\ client.token # None
    /\ request[1].authorization = None

\* C13: every request, authenticated or not, carries an Accept-Language header
\* whose language is the locale the session was constructed with.
C13_EveryRequestCarriesLocale ==
    request # None => request[1].accept_language = <<client.lang>>

\* A session constructed with "es" has sent an authenticated request.
C13_Witness ==
    /\ request # None
    /\ TheWrapper.auth
    /\ client.lang = <<"e", "s">>
    /\ request[1].accept_language = <<(<<"e", "s">>)>>

\* C14: no step of a call of a wrapper, of make_request or of
\* make_authenticated_request, successful, failing or of unknown status,
\* changes the locale or the token of the session.
C14_SessionNeverChanges == [][client' = client]_vars

\* A session with a token has been through a call and its second call, of
\* make_authenticated_request by the caller itself, has ended on a failure of
\* the transport.
C14_Witness ==
    /\ pc = "done"
    /\ gets = 2
    /\ TheWrapper.name = "make_authenticated_request"
    /\ client.token # None
    /\ response = <<TransportError>>
    /\ outcome.kind = "Err"

\* A step that begins the call of an endpoint wrapper.
BeginsWrapperCall == pc = "idle" /\ pc' # "idle" /\ call'[1].w.name # "parse_response"

\* C15 as stated: every call of an endpoint wrapper sends exactly one GET, and
\* nothing is sent while the call waits, ends or returns.
C15_EveryCallSendsOneGet ==
    [][/\ BeginsWrapperCall => gets' = gets + 1
       /\ ~BeginsWrapperCall => gets' = gets]_vars

\* C15, amended: every call of an endpoint wrapper sends exactly one GET, the
\* first call as well as any later one, except the call of an authenticated
\* wrapper on a session without a token, which panics and sends none; nothing
\* is sent while the call waits, ends or returns, whatever the response.
C15_OneGetPerCallUnlessNoToken ==
    [][/\ BeginsWrapperCall
           => IF call'[1].w.auth /\ client.token = None
              THEN gets' = gets /\ outcome' = [kind |-> "panic", msg |-> "token is not configured"]
              ELSE gets' = gets + 1 /\ request' # None
       /\ ~BeginsWrapperCall => gets' = gets]_vars

\* The second call of a session has ended on a 500 after the second GET of the
\* session, and no third one.
C15_Witness ==
    /\ GotResponse
    /\ TheWrapper.name = "get_mastery"
    /\ TheStatus = 500
    /\ gets = 2

\* What the call of wrapper w with argument a, answered with r, sends and ends
\* in when it is the only call made on the session.
RunAlone(w, a, r) ==
    LET s == wrapper_send(client, w, a) IN
      IF s.sent THEN [request |-> <<s.request>>,
                      outcome |-> IF r = None THEN NoOutcome ELSE wrapper_result(w, r[1])]
      ELSE [request |-> None, outcome |-> [kind |-> "panic", msg |-> s.panic]]

\* C16: with several callers in calls on the same session at once, in every
\* interleaving each call sends the request and ends in the outcome it has when
\* it runs alone, and a step of one call changes neither the call of another
\* caller nor the session.
C16_ConcurrentCallsAreIndependent ==
    /\ [](\A t \in Threads :
            threads[t].pc # "idle"
                => LET c == threads[t].call[1]
                       alone == RunAlone(c.w, c.arg, threads[t].response) IN
                     /\ threads[t].request = alone.request
                     /\ threads[t].outcome = alone.outcome)
    /\ [][/\ client' = client
          /\ \A t, u \in Threads :
                 (t # u /\ threads'[t] # threads[t]) => threads'[u] = threads[u]]_vars

\* Two callers are in calls at once: one has its answer while the other,
\* which sent its request first or second, still waits.
C16_Witness ==
    /\ threads[1].pc = "done"
    /\ threads[1].call[1].w.name = "get_account"
    /\ threads[1].response # None
    /\ threads[1].outcome.kind = "Ok"
    /\ threads[2].pc = "waiting"
    /\ threads[2].call[1].w.name = "get_mastery"

\* The call is the call that ended before it, made again and answered alike.
RepeatsCallBefore ==
    /\ prev # None
    /\ prev[1].call[1].w = TheWrapper
    /\ prev[1].call[1].arg = TheArg
    /\ prev[1].response = response

\* C17: a call that repeats the call before it on the same session and gets
\* the same answer from the transport ends in the same outcome; whatever the
\* call before was, the outcome is the one the call has when it runs alone.
C17_RepeatedCallSameOutcome ==
    pc = "done"
        => /\ RepeatsCallBefore => outcome = prev[1].outcome
           /\ outcome = RunAlone(TheWrapper, TheArg, response).outcome

\* get_mastery(42) was called twice running and answered 404 "denied" both times.
C17_Witness ==
    /\ GotResponse
    /\ RepeatsCallBefore
    /\ TheWrapper.name = "get_mastery"
    /\ TheStatus = 404
    /\ outcome.kind = "Err"
    /\ gets = 2

\* What follows the character name in the path of each character endpoint.
CharacterSuffix(name) ==
    CASE name = "get_character" -> <<>>
      [] name = "get_character_backstory" -> <<"/", "b", "a", "c", "k", "s", "t", "o", "r", "y">>
      [] name = "get_character_core" -> <<"/", "c", "o", "r", "e">>
      [] name = "get_character_crafting" -> <<"/", "c", "r", "a", "f", "t", "i", "n", "g">>
      [] name = "get_character_equipment" -> <<"/", "e", "q", "u", "i", "p", "m", "e", "n", "t">>
      [] name = "get_character_heropoints" -> <<"/", "h", "e", "r", "o", "p", "o", "i", "n", "t", "s">>
      [] name = "get_character_inventory" -> <<"/", "i", "n", "v", "e", "n", "t", "o", "r", "y">>
      [] name = "get_character_recipes" -> <<"/", "r", "e", "c", "i", "p", "e", "s">>
      [] name = "get_character_sab" -> <<"/", "s", "a", "b">>
      [] name = "get_character_skills" -> <<"/", "s", "k", "i", "l", "l", "s">>
      [] name = "get_character_specializations" ->
             <<"/", "s", "p", "e", "c", "i", "a", "l", "i", "z", "a", "t", "i", "o", "n", "s">>
      [] name = "get_character_training" -> <<"/", "t", "r", "a", "i", "n", "i", "n", "g">>

\* C18: the path requested for a character endpoint is "/v2/characters/", the
\* character name exactly as the caller gave it, and the rest of the template;
\* no character of the name is escaped, dropped or altered.
C18_CharacterNameSubstitutedVerbatim ==
    (request # None /\ TheWrapper.arg = "path")
        => PathOf(request[1].url)
               = ((<<"/", "v", "2", "/", "c", "h", "a", "r", "a", "c", "t", "e", "r", "s", "/">>
                   \o TheArg) \o CharacterSuffix(TheWrapper.name))

\* get_character_core was called with a name that holds '/', ' ', '?', '#' and '&'.
C18_Witness ==
    /\ request # None
    /\ TheWrapper.name = "get_character_core"
    /\ TheArg = <<"a", "/", "b", " ", "?", "#", "&">>
    /\ IsSubstring(<<"/", "a", "/", "b", " ", "?", "#", "&", "/", "c", "o", "r", "e">>,
                   request[1].url)

\* The endpoints of account.rs that no wrapper requests.
UnusedAccountEndpoints ==
    {"characters", "transactions", "pvp-stats", "pvp-games", "pvp-standings", "tokeninfo"}

\* C19: the URL of every request, authenticated or not, is the origin
\* "https://api.guildwars2.com" followed by the path the client was given;
\* for a wrapper that path is the one the endpoint resolver gave, and it
\* begins with "/v2/" and not with an origin; so do the paths of the
\* endpoints that no wrapper requests.
C19_PathsAreRelativeToFixedOrigin ==
    /\ request # None
           => /\ IsPrefix(OriginText, request[1].url)
              /\ TheWrapper.file = "client" => PathOf(request[1].url) = TheArg
              /\ TheWrapper.file # "client"
                     => /\ PathOf(request[1].url)
                               = get_endpoint(TheWrapper, encode_arg(TheWrapper, TheArg))
                        /\ IsPrefix(V2Text, PathOf(request[1].url))
                        /\ ~IsPrefix(OriginText, PathOf(request[1].url))
    /\ \A n \in UnusedAccountEndpoints : IsPrefix(V2Text, get_endpoint_account(n, <<>>))

\* An authenticated request for an endpoint of account.rs is on its way.
C19_Witness ==
    /\ pc = "waiting"
    /\ TheWrapper.name = "get_account_wallet"
    /\ TheWrapper.auth
    /\ IsPrefix(OriginText \o V2Text, request[1].url)

\* C20: when the status is in the valid set and in the invalid set,
\* parse_response deserializes the body as the success type: a well-formed
\* body gives Ok with its value, and the result is never the structured error
\* of the body.
C20_ValidTakesPrecedence ==
    (GotResponse /\ ~TheWrapper.inline
       /\ TheStatus \in (TheWrapper.valid \cap TheWrapper.invalid))
        => /\ outcome.kind # "Err"
           /\ TheBody.data # None => outcome = [kind |-> "Ok", value |-> TheBody.data[1]]

\* parse_response was given 404 in both sets and a body that deserializes
\* both ways.
C20_Witness ==
    /\ GotResponse
    /\ TheWrapper.valid = {200, 404}
    /\ TheWrapper.invalid = {404}
    /\ TheStatus = 404
    /\ TheBody.data # None
    /\ TheBody.text # None
    /\ outcome.kind = "Ok"

\* The response of the current call with its body replaced by b.
WithBody(b) == [response[1] EXCEPT !.body = b]

\* C21: when parse_response is given a status that is in neither set, the
\* outcome is a function of the status alone: the same response with any
\* other body, a malformed or empty one included, gives the same outcome, and
\* that outcome is not a panic.
C21_UndeclaredStatusIgnoresBody ==
    (GotResponse /\ ~TheWrapper.inline
       /\ TheStatus \notin (TheWrapper.valid \cup TheWrapper.invalid))
        => /\ outcome.kind = "Err"
           /\ \A b \in Bodies : wrapper_result(TheWrapper, WithBody(b)) = outcome

\* parse_response was given 403, declared in neither set, with a body that
\* deserializes as a value and as an error record, and returned the
\* unknown-status error.
C21_Witness ==
    /\ GotResponse
    /\ TheWrapper.name = "parse_response"
    /\ TheWrapper.valid = {200}
    /\ TheWrapper.invalid = {404}
    /\ TheStatus = 403
    /\ TheBody.data # None
    /\ TheBody.text # None
    /\ outcome.kind = "Err"
    /\ outcome.error.text # TheBody.text[1]

\* The three branches of the classification and what each makes of a
\* response.
Branches == {"success", "error", "unknown"}
BranchOutcome(branch, r) ==
    CASE branch = "success" ->
             IF r.body.data # None THEN [kind |-> "Ok", value |-> r.body.data[1]]
             ELSE [kind |-> "panic", msg |-> UnwrapMsg]
      [] branch = "error" ->
             IF r.body.text # None THEN [kind |-> "Err", error |-> [text |-> r.body.text[1]]]
             ELSE [kind |-> "panic", msg |-> UnwrapMsg]
      [] branch = "unknown" ->
             [kind |-> "Err",
              error |-> [text |-> (UnknownStatusText \o <<":", " ">>) \o StatusCode_fmt(r.status)]]
\* The branch that membership of the status in the two sets selects.
SelectedBranch(status, valid, invalid) ==
    IF status \in valid THEN "success"
    ELSE IF status \in invalid THEN "error"
    ELSE "unknown"

\* C22: for every status and every pair of sets parse_response behaves as
\* exactly one of the three branches, over all bodies, and that branch is the
\* one that membership of the status in valid and in invalid selects.
C22_ClassificationIsTotalPartition ==
    (GotResponse /\ ~TheWrapper.inline)
        => LET taken == {br \in Branches :
                           \A b \in Bodies :
                               wrapper_result(TheWrapper, WithBody(b))
                                   = BranchOutcome(br, WithBody(b))}
           IN /\ taken = {SelectedBranch(TheStatus, TheWrapper.valid, TheWrapper.invalid)}
              /\ outcome = BranchOutcome(
                               SelectedBranch(TheStatus, TheWrapper.valid, TheWrapper.invalid),
                               response[1])

\* parse_response was given 206 with the sets {200} and {404}: a 2xx status
\* that is in neither set, so the unknown-status branch is the one taken.
C22_Witness ==
    /\ GotResponse
    /\ TheWrapper.name = "parse_response"
    /\ TheWrapper.valid = {200}
    /\ TheWrapper.invalid = {404}
    /\ TheStatus = 206
    /\ TheBody.data # None
    /\ outcome.kind = "Err"

\* The call returned the error record of the body.
DocumentedError ==
    outcome = [kind |-> "Err", error |-> [text |-> TheBody.text[1]]]
\* The call returned the unknown-status error.
UnexpectedStatus ==
    /\ outcome.kind = "Err"
    /\ IsPrefix(UnknownStatusText, outcome.error.text)

\* C23: the status sets belong to the call site.  A 404 with an error record
\* in the body is a documented error at every unauthenticated wrapper
\* (invalid holds 404) and an unexpected status at every wrapper of
\* account.rs (invalid is {403}); a 403 with an error record in the body is a
\* documented error at every wrapper of account.rs and characters.rs and an
\* unexpected status at every unauthenticated wrapper.
C23_StatusSetsPerCallSite ==
    (GotResponse /\ TheWrapper.file # "util" /\ TheBody.text # None)
        => /\ (TheStatus = 404 /\ ~TheWrapper.auth)
                  => (404 \in TheWrapper.invalid /\ DocumentedError)
           /\ (TheStatus = 404 /\ TheWrapper.file = "account")
                  => (TheWrapper.invalid = {403} /\ UnexpectedStatus)
           /\ (TheStatus = 403 /\ TheWrapper.file \in {"account", "characters"})
                  => (403 \in TheWrapper.invalid /\ DocumentedError)
           /\ (TheStatus = 403 /\ ~TheWrapper.auth)
                  => (403 \notin TheWrapper.invalid /\ UnexpectedStatus)

\* get_account received 404 with an error record in the body and returned the
\* unknown-status error, not the record.
C23_Witness ==
    /\ GotResponse
    /\ TheWrapper.name = "get_account"
    /\ TheStatus = 404
    /\ TheBody.text # None
    /\ UnexpectedStatus
    /\ outcome.error.text # TheBody.text[1]

\* The character wrappers that take a name and do not declare 400.
NoBadRequestWrappers == {"get_character", "get_character_sab"}

\* C24: a 400 with an error record in the body is a documented error at the
\* character wrappers that take a name, other than get_character and
\* get_character_sab, which do not declare 400; at those two and at every
\* call site that does not declare 400 it is an unexpected status.
C24_BadRequestPerCallSite ==
    (GotResponse /\ TheStatus = 400 /\ TheBody.text # None)
        => /\ (TheWrapper.arg = "path" /\ TheWrapper.name \notin NoBadRequestWrappers)
                  => (400 \in TheWrapper.invalid /\ DocumentedError)
           /\ TheWrapper.name \in NoBadRequestWrappers
                  => (400 \notin TheWrapper.invalid /\ UnexpectedStatus)
           /\ 400 \notin (TheWrapper.valid \cup TheWrapper.invalid) => UnexpectedStatus

\* get_character_core received 400 with the error record "denied" and
\* returned it.
C24_Witness ==
    /\ GotResponse
    /\ TheWrapper.name = "get_character_core"
    /\ TheStatus = 400
    /\ TheBody.text = <<(<<"d", "e", "n", "i", "e", "d">>)>>
    /\ DocumentedError

\* The strings of ss, each followed by a comma, one after the other.
RECURSIVE EachThenComma(_)
EachThenComma(ss) ==
    IF ss = <<>> THEN <<>>
    ELSE (Head(ss) \o <<",">>) \o EachThenComma(Tail(ss))
\* How many times the character c occurs in s, and in the strings of ss.
RECURSIVE CountOf(_, _)
CountOf(s, c) ==
    IF s = <<>> THEN 0
    ELSE (IF Head(s) = c THEN 1 ELSE 0) + CountOf(Tail(s), c)
RECURSIVE CountIn(_, _)
CountIn(ss, c) ==
    IF ss = <<>> THEN 0 ELSE CountOf(Head(ss), c) + CountIn(Tail(ss), c)
\* The query of the request of the current call.
TheQuery == AfterFirst(request[1].url, "?")

\* C25: for a non-empty list the query a batch wrapper sends is the
\* parameter name, "=", and every element in order followed by a comma, the
\* last one included: it ends with a comma and holds one separator per
\* element (the commas that are not part of an element number as many as the
\* elements).
C25_ListEncodingTrailingSeparator ==
    (request # None /\ IsBatch(TheWrapper) /\ TheArg # <<>>)
        => /\ TheQuery = (TheWrapper.param \o <<"=">>) \o EachThenComma(ElementStrings)
           /\ TheQuery[Len(TheQuery)] = ","
           /\ CountOf(TheQuery, ",") - CountIn(ElementStrings, ",") = Len(TheArg)

\* get_masteries was called with [1, 23] and asked for "ids=1,23,".
C25_Witness ==
    /\ request # None
    /\ TheWrapper.name = "get_masteries"
    /\ TheArg = <<1, 23>>
    /\ TheQuery = <<"i", "d", "s", "=", "1", ",", "2", "3", ",">>

\* The wrappers whose single value is an amount to convert and not the ID of
\* an item; the name of their parameter is "quantity".
QuantityWrappers == {"get_coin_exchange", "get_gem_exchange"}
\* The template of the current wrapper with nothing in its hole.
TheTemplate == get_endpoint(TheWrapper, <<>>)
\* The string form of the single value of the current call.
TheValueString == IF TheWrapper.arg = "number" THEN to_string(TheArg) ELSE TheArg

\* C26: the query a single-value wrapper sends is its parameter name, "=" and
\* the string form of the value, with no comma or anything else added; the
\* wrappers that look one item up pass the name "id" (those that convert an
\* amount pass "quantity") and the batch wrappers pass "ids"; the path is the
\* template, which holds exactly one "?", at its end, followed by the
\* fragment.
C26_SingleValueEncoding ==
    /\ (request # None /\ TheWrapper.arg \in {"number", "string"})
           => /\ TheQuery = (TheWrapper.param \o <<"=">>) \o TheValueString
              /\ CountOf(TheQuery, ",") = CountOf(TheValueString, ",")
              /\ TheWrapper.param = IF TheWrapper.name \in QuantityWrappers
                                    THEN <<"q", "u", "a", "n", "t", "i", "t", "y">>
                                    ELSE <<"i", "d">>
    /\ (request # None /\ IsBatch(TheWrapper))
           => TheWrapper.param = <<"i", "d", "s">>
    /\ (request # None /\ TheWrapper.arg \in {"number", "string", "numbers", "strings"})
           => /\ CountOf(TheTemplate, "?") = 1
              /\ TheTemplate[Len(TheTemplate)] = "?"
              /\ PathOf(request[1].url)
                     = TheTemplate \o encode_arg(TheWrapper, TheArg)
              /\ IsPrefix(TheWrapper.param \o <<"=">>, TheQuery)

\* get_mastery was called with -7 and asked for "/v2/masteries?id=-7".
C26_Witness ==
    /\ request # None
    /\ TheWrapper.name = "get_mastery"
    /\ TheArg = -7
    /\ PathOf(request[1].url)
           = <<"/", "v", "2", "/", "m", "a", "s", "t", "e", "r", "i", "e", "s", "?",
               "i", "d", "=", "-", "7">>

\* The string IDs of the current call, one for a single-item wrapper.
TheStrings == IF TheWrapper.arg = "string" THEN <<TheArg>> ELSE TheArg
\* Where the i-th string ID starts in a query in which each ID before it is
\* followed by one separator.
RECURSIVE StartOf(_, _)
StartOf(ss, i) == IF i = 1 THEN 1 ELSE StartOf(ss, i - 1) + Len(ss[i - 1]) + 1
RECURSIVE TotalLen(_)
TotalLen(ss) == IF ss = <<>> THEN 0 ELSE Len(Head(ss)) + TotalLen(Tail(ss))

\* C27: the query made of string IDs holds every ID character for character
\* and in order, commas, "=", "&", "?", "#" and spaces included; around them
\* there is only the parameter name, one "=" and, in a list, the separating
\* commas.
C27_StringEncodingEscapesNothing ==
    (request # None /\ TheWrapper.arg \in {"string", "strings"})
        => LET label == TheWrapper.param \o <<"=">>
               values == SubSeq(TheQuery, Len(label) + 1, Len(TheQuery))
               separators == IF TheWrapper.arg = "string" THEN 0 ELSE Len(TheStrings)
           IN /\ IsPrefix(label, TheQuery)
              /\ Len(values) = TotalLen(TheStrings) + separators
              /\ \A i \in 1..Len(TheStrings) :
                     /\ SubSeq(values, StartOf(TheStrings, i),
                               StartOf(TheStrings, i) + Len(TheStrings[i]) - 1) = TheStrings[i]
                     /\ TheWrapper.arg = "strings"
                            => values[StartOf(TheStrings, i) + Len(TheStrings[i])] = ","

\* get_profession was called with the ID "x=& ?#" and the query holds it as
\* it is.
C27_Witness ==
    /\ request # None
    /\ TheWrapper.name = "get_profession"
    /\ TheArg = <<"x", "=", "&", " ", "?", "#">>
    /\ TheQuery = <<"i", "d", "=", "x", "=", "&", " ", "?", "#">>

\* C28: a call of an authenticated wrapper on a session that has no token
\* ends in the panic "token is not configured" with nothing sent: the call
\* has no request and no response, the count of GETs of the session is what
\* it was, and the outcome is not a Result.  So every request that was sent
\* for an authenticated wrapper carries an Authorization header.
C28_NoTokenAbortsBeforeSending ==
    /\ [](/\ (call # None /\ TheWrapper.auth /\ client.token = None)
                 => /\ pc = "done"
                    /\ request = None
                    /\ response = None
                    /\ outcome = [kind |-> "panic", msg |-> "token is not configured"]
          /\ (request # None /\ TheWrapper.auth) => request[1].authorization # None)
    /\ [][(call = None /\ call' # None /\ call'[1].w.auth /\ client.token = None)
              => gets' = gets]_vars

\* get_character was called on a session constructed without a token, after
\* an unauthenticated call had sent a GET, and panicked.
C28_Witness ==
    /\ pc = "done"
    /\ client.token = None
    /\ TheWrapper.name = "get_character"
    /\ request = None
    /\ gets = 1
    /\ outcome.kind = "panic"

\* Parameter names the list encoders are given.
ParamNames == {<<"i", "d", "s">>, <<"i", "d">>, <<"q", "u", "a", "n", "t", "i", "t", "y">>}

\* C29: for the empty list both list encoders return the parameter name and
\* "=" and nothing more, and a batch wrapper called with the empty list is
\* not rejected: it sends a request and the query of that request is "ids=".
C29_EmptyListEncoding ==
    /\ \A p \in ParamNames :
           /\ numbers_to_param(p, <<>>) = p \o <<"=">>
           /\ strings_to_param(p, <<>>) = p \o <<"=">>
    /\ (call # None /\ IsBatch(TheWrapper) /\ TheArg = <<>>)
           => /\ request # None
              /\ TheQuery = <<"i", "d", "s", "=">>
              /\ outcome.kind # "panic" \/ response # None

\* get_masteries was called with the empty list and its GET for
\* "/v2/masteries?ids=" is on its way.
C29_Witness ==
    /\ pc = "waiting"
    /\ TheWrapper.name = "get_masteries"
    /\ TheArg = <<>>
    /\ PathOf(request[1].url)
           = <<"/", "v", "2", "/", "m", "a", "s", "t", "e", "r", "i", "e", "s", "?",
               "i", "d", "s", "=">>

\* What parse_response makes of the response of the current call when it is
\* given 200 as the valid status and 404 as the invalid one.
ByParseResponse == parse_response(response[1], {200}, {404})

\* C30: a wrapper of achievements.rs, which tests the status itself, takes
\* for every status the branch parse_response takes with valid = {200} and
\* invalid = {404}: on 200 and on 404 the two give the same outcome, and on
\* every other status both give an Err that does not depend on the body and
\* whose text begins with "unknown status code"; only parse_response adds the
\* status to that text.
C30_InlineCheckMatchesParseResponse ==
    (GotResponse /\ TheWrapper.inline)
        => /\ TheWrapper.file = "achievements"
           /\ SelectedBranch(TheStatus, TheWrapper.valid, TheWrapper.invalid)
                  = SelectedBranch(TheStatus, {200}, {404})
           /\ IF TheStatus \in {200, 404}
              THEN outcome = ByParseResponse
              ELSE /\ outcome = [kind |-> "Err", error |-> [text |-> UnknownStatusText]]
                   /\ ByParseResponse = BranchOutcome("unknown", response[1])
                   /\ outcome # ByParseResponse
                   /\ \A b \in Bodies : wrapper_result(TheWrapper, WithBody(b)) = outcome

\* get_achievement_categories received 206 with a well-formed body and
\* returned the unknown-status error without the code.
C30_Witness ==
    /\ GotResponse
    /\ TheWrapper.name = "get_achievement_categories"
    /\ TheStatus = 206
    /\ TheBody.data # None
    /\ outcome = [kind |-> "Err", error |-> [text |-> UnknownStatusText]]

====
